---- MODULE Spec2Model ----
(***************************************************************************)
(* State-machine model of the lidar_s_graphs fusion nodelet               *)
(* (HdlGraphSlamNodelet): producer callbacks, the optimization timer, the  *)
(* map-publish timer and the dump / save-map services, with the queues,    *)
(* the keyframe store, the landmark collections and the optimization graph *)
(* they share.                                                             *)
(*                                                                         *)
(* Units.  Time stamps are integers counting fifths of a second, so the     *)
(* 0.2 s matching window is 1.  Lengths and plane offsets are integers     *)
(* counting centimetres; unit normals are scaled by 100.                   *)
(*                                                                         *)
(* External collaborators (g2o solver, loop detector, tf listener) are     *)
(* inputs: what they return is drawn from small sets.  The solver leaves   *)
(* vertex estimates where they were created.                               *)
(*                                                                         *)
(* Four specifications share the variables: Spec (the handlers, each as    *)
(* one step), SpecConc (the handlers step by step, with their mutexes),    *)
(* SpecMapper (PlaneMapper driven on the graph, the keyframes and the      *)
(* plane collections) and SpecUtils (the plane utilities called on their   *)
(* own).                                                                   *)
(***************************************************************************)
EXTENDS Integers, Sequences, FiniteSets, TLC

(***************************************************************************)
(* Bounds of the model.                                                    *)
(***************************************************************************)
MaxStamp == 5       \* stamps range over 1..MaxStamp
MaxKeyframes == 2   \* keyframes ever created by cloud_callback
MaxAux == 2         \* auxiliary messages (gps, imu, floor, segments) ever received
ConcMaxKeyframes == 1  \* the same two, for the interleaved specification
ConcMaxAux == 1
BatchSizes == {1, 2}   \* values of the max_keyframes_per_update parameter

(***************************************************************************)
(* Program parameters and literals.                                        *)
(***************************************************************************)
aux_window == 1                    \* 0.2 s
min_seg_points == 100
normal_gate == 98                  \* 0.98
plane_dist_threshold == 15         \* 0.15
corridor_dist_threshold == 100     \* 1.0
corridor_min_plane_length == 1000  \* 10
corridor_min_width == 150          \* 1.5
corridor_max_width == 250          \* 2.5
corridor_plane_length_diff_threshold == 30  \* 0.3
room_plane_length_diff_threshold == 30      \* 0.3
room_dist_threshold == 100         \* 1.0
room_min_plane_length == 300       \* 3.0
room_max_plane_length == 600       \* 6.0
room_min_width == 250              \* 2.5
min_dist_init == 10000             \* float min_dist = 100
refine_rooms_init == 250           \* float min_width_diff = 2.5
min_corr_length_diff_init == 10000 \* float min_corr_length_diff = 100
use_corridor_constraint == TRUE
use_room_constraint == TRUE
use_point_to_plane == FALSE
use_parallel_plane_constraint == TRUE
use_perpendicular_plane_constraint == TRUE
enable_imu_orientation == TRUE
enable_imu_acceleration == FALSE
fix_first_node == FALSE

X_VERT_PLANE == 0
Y_VERT_PLANE == 1
HORT_PLANE == 2

NULL == -1

(***************************************************************************)
(* Small helpers.                                                          *)
(***************************************************************************)
Abs(x) == IF x < 0 THEN -x ELSE x
Min(a, b) == IF a < b THEN a ELSE b
Range(s) == {s[i] : i \in 1..Len(s)}
Last(s) == s[Len(s)]
Drop(s, n) == SubSeq(s, n + 1, Len(s))
Dot(a, b) == a[1] * b[1] + a[2] * b[2] + a[3] * b[3]
IsSorted(q) == \A i \in 1..Len(q) - 1 : q[i].stamp <= q[i + 1].stamp

VARIABLES
  max_keyframes_per_update,  \* parameter read by onInit
  \* keyframe store
  kf,                  \* every KeyFrame object ever created, in arrival order
  keyframe_queue,      \* std::deque<KeyFrame::Ptr>, as indices into kf
  new_keyframes,       \* staging list
  keyframes,           \* committed sequence
  keyframe_hash,       \* stamp -> keyframe
  base_frame_id,       \* TRUE once non-empty
  \* auxiliary queues
  gps_queue, imu_queue, floor_coeffs_queue, clouds_seg_queue,
  zero_utm,            \* boost::optional: TRUE once set
  \* graph and landmarks
  graph,
  floor_plane_node, anchor_node,
  x_vert_planes, y_vert_planes, hort_planes,
  x_corridors, y_corridors, rooms_vec,
  \* publication
  trans_odom2map, keyframes_snapshot, graph_updated,
  \* threads and locks
  mutex,               \* mutex name -> holding thread, or "free"
  pc,                  \* thread -> position
  tick,                \* what the optimization timer did, when the step just taken
                       \* was a tick (history)
  snapshot,            \* the local copy of keyframes_snapshot, of the map publisher
                       \* and of save_map_service
  \* history
  sent,                \* messages received so far, per kind, last stamp per source and
                       \* the segmented-clouds messages;
                       \* in SpecMapper, the plane ids handed out so far and the
                       \* numbers of calls and removals
  last                 \* the step just taken: its thread and handler, the mutexes
                       \* the thread held while it wrote, the shared state it read;
                       \* in SpecMapper and SpecUtils, the call just made, what
                       \* it was given and what it gave back

vars == <<max_keyframes_per_update, kf, keyframe_queue, new_keyframes, keyframes, keyframe_hash, base_frame_id,
          gps_queue, imu_queue, floor_coeffs_queue, clouds_seg_queue, zero_utm,
          graph, floor_plane_node, anchor_node,
          x_vert_planes, y_vert_planes, hort_planes, x_corridors, y_corridors, rooms_vec,
          trans_odom2map, keyframes_snapshot, graph_updated,
          mutex, pc, tick, snapshot, sent, last>>

(***************************************************************************)
(* The nodelet's data members as one record, so that the member functions  *)
(* below can be composed the way optimization_timer_callback calls them.   *)
(***************************************************************************)
This ==
  [kf |-> kf, keyframe_queue |-> keyframe_queue, new_keyframes |-> new_keyframes,
   keyframes |-> keyframes, keyframe_hash |-> keyframe_hash,
   base_frame_id |-> base_frame_id,
   gps_queue |-> gps_queue, imu_queue |-> imu_queue,
   floor_coeffs_queue |-> floor_coeffs_queue, clouds_seg_queue |-> clouds_seg_queue,
   zero_utm |-> zero_utm, graph |-> graph,
   floor_plane_node |-> floor_plane_node, anchor_node |-> anchor_node,
   x_vert_planes |-> x_vert_planes, y_vert_planes |-> y_vert_planes,
   hort_planes |-> hort_planes, x_corridors |-> x_corridors,
   y_corridors |-> y_corridors, rooms_vec |-> rooms_vec,
   trans_odom2map |-> trans_odom2map, keyframes_snapshot |-> keyframes_snapshot,
   graph_updated |-> graph_updated,
   \* the calls of factor_planes, factor_corridors and factor_rooms the handler
   \* has made (history)
   log |-> <<>>]

Store(n) ==
  /\ kf' = n.kf
  /\ keyframe_queue' = n.keyframe_queue
  /\ new_keyframes' = n.new_keyframes
  /\ keyframes' = n.keyframes
  /\ keyframe_hash' = n.keyframe_hash
  /\ base_frame_id' = n.base_frame_id
  /\ gps_queue' = n.gps_queue
  /\ imu_queue' = n.imu_queue
  /\ floor_coeffs_queue' = n.floor_coeffs_queue
  /\ clouds_seg_queue' = n.clouds_seg_queue
  /\ zero_utm' = n.zero_utm
  /\ graph' = [n.graph EXCEPT !.added = <<>>]
  /\ floor_plane_node' = n.floor_plane_node
  /\ anchor_node' = n.anchor_node
  /\ x_vert_planes' = n.x_vert_planes
  /\ y_vert_planes' = n.y_vert_planes
  /\ hort_planes' = n.hort_planes
  /\ x_corridors' = n.x_corridors
  /\ y_corridors' = n.y_corridors
  /\ rooms_vec' = n.rooms_vec
  /\ trans_odom2map' = n.trans_odom2map
  /\ keyframes_snapshot' = n.keyframes_snapshot
  /\ graph_updated' = n.graph_updated

(***************************************************************************)
(* GraphSLAM (graph_slam.cpp is not among the sources; modelled from its   *)
(* declared interface and the documented contract: a vertex's id is the    *)
(* number of vertices added before it).                                    *)
(***************************************************************************)
\* graph->vertices().size(): a removed vertex keeps its slot in the sequence,
\* so that the slot number stays the id, and is no longer counted
num_vertices(g) == Cardinality({v \in DOMAIN g.vertices : g.vertices[v] # "removed"})

\* the count of vertices added so far, which no removal lowers
num_vertices_local(g) == Len(g.vertices)

\* added: the vertices and the edges added since the handler began, in the order
\* of the calls (history)
add_node(g, kind) ==
  [g EXCEPT !.vertices = Append(@, kind),
            !.added = Append(@, [vertex |-> TRUE, kind |-> kind, v1 |-> Len(g.vertices),
                                 v2 |-> NULL, meas |-> NULL])]

\* removes the vertex and the edges that end at it
remove_plane_node(g, plane_vertex) ==
  LET incident == {e \in g.edges : e.v1 = plane_vertex \/ e.v2 = plane_vertex}
  IN [g EXCEPT !.vertices[plane_vertex + 1] = "removed",
               !.num_edges = @ - Cardinality(incident),
               !.edges = @ \ incident]

add_edge(g, kind, v1, v2, meas) ==
  [g EXCEPT !.num_edges = @ + 1,
            !.edges = @ \cup {[kind |-> kind, v1 |-> v1, v2 |-> v2, meas |-> meas]},
            !.added = Append(@, [vertex |-> FALSE, kind |-> kind, v1 |-> v1, v2 |-> v2,
                                 meas |-> meas])]

EmptyGraph == [vertices |-> <<>>, num_edges |-> 0, edges |-> {}, added |-> <<>>]

(***************************************************************************)
(* std::upper_bound as the library's binary search: the number of leading  *)
(* elements it puts before the returned iterator.                          *)
(***************************************************************************)
RECURSIVE upper_bound_from(_, _, _, _)
upper_bound_from(q, first, len, value) ==
  IF len <= 0 THEN first
  ELSE LET half == len \div 2
           mid  == first + half
       IN IF value < q[mid + 1].stamp
          THEN upper_bound_from(q, first, half, value)
          ELSE upper_bound_from(q, mid + 1, len - half - 1, value)

upper_bound(q, value) == upper_bound_from(q, 0, Len(q), value)

(***************************************************************************)
(* flush_keyframe_queue                                                    *)
(***************************************************************************)
\* a variant that flushes the whole queue
KeyframeBatchUnbounded(n) == Len(n.keyframe_queue)

KeyframeBatch(n) == Min(Len(n.keyframe_queue), max_keyframes_per_update)

\* body of the for loop, iteration i (0-based)
flush_keyframe_iter(n, i) ==
  LET keyframe == n.keyframe_queue[i + 1]
      node     == num_vertices(n.graph)
      n1 == [n EXCEPT !.new_keyframes = Append(@, keyframe),
                      !.graph = add_node(@, "se3"),
                      !.kf[keyframe].node = node,
                      !.kf[keyframe].est = n.trans_odom2map + n.kf[keyframe].odom,
                      !.keyframe_hash = [s \in DOMAIN @ \cup {n.kf[keyframe].stamp} |->
                                           IF s = n.kf[keyframe].stamp THEN keyframe ELSE @[s]]]
      n2 == IF n1.keyframes = <<>> /\ Len(n1.new_keyframes) = 1 /\ fix_first_node
            THEN LET anchor == num_vertices(n1.graph)
                 IN [n1 EXCEPT !.graph = add_edge(add_node(@, "se3"), "se3_anchor", anchor, node, NULL),
                               !.anchor_node = anchor]
            ELSE n1
  IN IF i = 0 /\ n2.keyframes = <<>>
     THEN n2
     ELSE LET prev_keyframe == IF i = 0 THEN Last(n2.keyframes) ELSE n2.keyframe_queue[i]
          IN [n2 EXCEPT !.graph = add_edge(@, "se3_odom", node, n2.kf[prev_keyframe].node, NULL)]

RECURSIVE flush_keyframe_loop(_, _, _)
flush_keyframe_loop(n, i, count) ==
  IF i >= count THEN n
  ELSE flush_keyframe_loop(flush_keyframe_iter(n, i), i + 1, count)

\* a variant that erases one keyframe more than the loop has processed
flush_keyframe_queue_overrun(n) ==
  IF n.keyframe_queue = <<>>
  THEN [n |-> n, ret |-> FALSE]
  ELSE LET count == KeyframeBatch(n)
           num_processed == IF count > 0 THEN count - 1 ELSE 0
           n1 == flush_keyframe_loop(n, 0, count)
       IN [n |-> [n1 EXCEPT !.keyframe_queue = Drop(@, Min(Len(@), num_processed + 2))],
           ret |-> TRUE]

flush_keyframe_queue(n) ==
  IF n.keyframe_queue = <<>>
  THEN [n |-> n, ret |-> FALSE]
  ELSE LET count == KeyframeBatch(n)
           num_processed == IF count > 0 THEN count - 1 ELSE 0
           n1 == flush_keyframe_loop(n, 0, count)
       IN [n |-> [n1 EXCEPT !.keyframe_queue = Drop(@, num_processed + 1)],
           ret |-> TRUE]

(***************************************************************************)
(* flush_gps_queue, flush_imu_queue: for each committed keyframe, scan the *)
(* queue from the cursor for the closest message.                          *)
(***************************************************************************)
\* the inner "find the closest" loop: index (1-based) of the closest message
RECURSIVE closest_from(_, _, _, _)
closest_from(q, stamp, closest, i) ==
  IF i > Len(q) THEN closest
  ELSE LET dt  == q[closest].stamp - stamp
           dt2 == q[i].stamp - stamp
       IN IF Abs(dt) < Abs(dt2) THEN closest
          ELSE closest_from(q, stamp, i, i + 1)

\* a variant with twice the window
too_far_wide(msg_stamp, keyframe_stamp) == 2 * aux_window < Abs(msg_stamp - keyframe_stamp)

\* the 0.2 s test on the closest message
too_far(msg_stamp, keyframe_stamp) == aux_window < Abs(msg_stamp - keyframe_stamp)

gps_add_prior(n, keyframe, msg) ==
  [n EXCEPT !.zero_utm = TRUE,
            !.kf[keyframe].utm_coord = TRUE,
            !.graph = add_edge(@, IF msg.alt_nan THEN "se3_prior_xy" ELSE "se3_prior_xyz",
                               n.kf[keyframe].node, NULL, msg.stamp)]

RECURSIVE flush_gps_loop(_, _, _, _)
flush_gps_loop(n, k, gps_cursor, updated) ==
  IF k > Len(n.keyframes) THEN [n |-> n, updated |-> updated]
  ELSE LET keyframe == n.keyframes[k]
           stamp    == n.kf[keyframe].stamp
           q        == n.gps_queue
       IN IF stamp > Last(q).stamp THEN [n |-> n, updated |-> updated]
          ELSE IF stamp < q[gps_cursor].stamp \/ n.kf[keyframe].utm_coord
               THEN flush_gps_loop(n, k + 1, gps_cursor, updated)
          ELSE LET closest_gps == closest_from(q, stamp, gps_cursor, gps_cursor)
               IN IF too_far(q[closest_gps].stamp, stamp)
                  THEN flush_gps_loop(n, k + 1, closest_gps, updated)
                  ELSE flush_gps_loop(gps_add_prior(n, keyframe, q[closest_gps]),
                                      k + 1, closest_gps, TRUE)

flush_gps_queue(n) ==
  IF n.keyframes = <<>> \/ n.gps_queue = <<>>
  THEN [n |-> n, ret |-> FALSE]
  ELSE LET r == flush_gps_loop(n, 1, 1, FALSE)
           remove_loc == upper_bound(n.gps_queue, n.kf[Last(n.keyframes)].stamp)
       IN [n |-> [r.n EXCEPT !.gps_queue = Drop(@, remove_loc)], ret |-> r.updated]

imu_add_prior(n, keyframe, msg) ==
  LET n1 == [n EXCEPT !.kf[keyframe].acceleration = TRUE]
      n2 == IF enable_imu_orientation
            THEN [n1 EXCEPT !.graph = add_edge(@, "se3_prior_quat", n.kf[keyframe].node, NULL, msg.stamp)]
            ELSE n1
  IN IF enable_imu_acceleration
     THEN [n2 EXCEPT !.graph = add_edge(@, "se3_prior_vec", n.kf[keyframe].node, NULL, msg.stamp)]
     ELSE n2

\* a variant that does not look at the acceleration the keyframe already has
RECURSIVE flush_imu_loop_again(_, _, _, _)
flush_imu_loop_again(n, k, imu_cursor, updated) ==
  IF k > Len(n.keyframes) THEN [n |-> n, updated |-> updated, threw |-> FALSE]
  ELSE LET keyframe == n.keyframes[k]
           stamp    == n.kf[keyframe].stamp
           q        == n.imu_queue
       IN IF stamp > Last(q).stamp THEN [n |-> n, updated |-> updated, threw |-> FALSE]
          ELSE IF stamp < q[imu_cursor].stamp
               THEN flush_imu_loop_again(n, k + 1, imu_cursor, updated)
          ELSE LET closest_imu == closest_from(q, stamp, imu_cursor, imu_cursor)
               IN IF too_far(q[closest_imu].stamp, stamp)
                  THEN flush_imu_loop_again(n, k + 1, closest_imu, updated)
                  ELSE IF ~q[closest_imu].tf
                       THEN [n |-> n, updated |-> updated, threw |-> TRUE]
                       ELSE flush_imu_loop_again(imu_add_prior(n, keyframe, q[closest_imu]),
                                           k + 1, closest_imu, TRUE)

\* result: the state, the updated flag, and whether the tf lookup threw
RECURSIVE flush_imu_loop(_, _, _, _)
flush_imu_loop(n, k, imu_cursor, updated) ==
  IF k > Len(n.keyframes) THEN [n |-> n, updated |-> updated, threw |-> FALSE]
  ELSE LET keyframe == n.keyframes[k]
           stamp    == n.kf[keyframe].stamp
           q        == n.imu_queue
       IN IF stamp > Last(q).stamp THEN [n |-> n, updated |-> updated, threw |-> FALSE]
          ELSE IF stamp < q[imu_cursor].stamp \/ n.kf[keyframe].acceleration
               THEN flush_imu_loop(n, k + 1, imu_cursor, updated)
          ELSE LET closest_imu == closest_from(q, stamp, imu_cursor, imu_cursor)
               IN IF too_far(q[closest_imu].stamp, stamp)
                  THEN flush_imu_loop(n, k + 1, closest_imu, updated)
                  ELSE IF ~q[closest_imu].tf
                       THEN [n |-> n, updated |-> updated, threw |-> TRUE]
                       ELSE flush_imu_loop(imu_add_prior(n, keyframe, q[closest_imu]),
                                           k + 1, closest_imu, TRUE)

flush_imu_queue(n) ==
  IF n.keyframes = <<>> \/ n.imu_queue = <<>> \/ ~n.base_frame_id
  THEN [n |-> n, ret |-> FALSE]
  ELSE LET r == flush_imu_loop(n, 1, 1, FALSE)
           remove_loc == upper_bound(n.imu_queue, n.kf[Last(n.keyframes)].stamp)
       IN IF r.threw
          THEN [n |-> r.n, ret |-> FALSE]
          ELSE [n |-> [r.n EXCEPT !.imu_queue = Drop(@, remove_loc)], ret |-> r.updated]

(***************************************************************************)
(* flush_floor_queue                                                       *)
(***************************************************************************)
floor_add_edge(n, keyframe, msg) ==
  LET n1 == IF n.floor_plane_node = NULL
            THEN [n EXCEPT !.floor_plane_node = num_vertices(n.graph),
                           !.graph = add_node(@, "plane")]
            ELSE n
  IN [n1 EXCEPT !.graph = add_edge(@, "se3_plane_floor", n.kf[keyframe].node,
                                   n1.floor_plane_node, msg.stamp),
                !.kf[keyframe].floor_coeffs = TRUE]

RECURSIVE flush_floor_loop(_, _, _, _)
flush_floor_loop(n, i, latest_keyframe_stamp, updated) ==
  IF i > Len(n.floor_coeffs_queue) THEN [n |-> n, updated |-> updated]
  ELSE LET floor_coeffs == n.floor_coeffs_queue[i]
       IN IF floor_coeffs.stamp > latest_keyframe_stamp
          THEN [n |-> n, updated |-> updated]
          ELSE IF floor_coeffs.stamp \notin DOMAIN n.keyframe_hash
               THEN flush_floor_loop(n, i + 1, latest_keyframe_stamp, updated)
               ELSE flush_floor_loop(
                      floor_add_edge(n, n.keyframe_hash[floor_coeffs.stamp], floor_coeffs),
                      i + 1, latest_keyframe_stamp, TRUE)

flush_floor_queue(n) ==
  IF n.keyframes = <<>>
  THEN [n |-> n, ret |-> FALSE]
  ELSE LET latest_keyframe_stamp == n.kf[Last(n.keyframes)].stamp
           r == flush_floor_loop(n, 1, latest_keyframe_stamp, FALSE)
           remove_loc == upper_bound(n.floor_coeffs_queue, latest_keyframe_stamp)
       IN [n |-> [r.n EXCEPT !.floor_coeffs_queue = Drop(@, remove_loc)],
           ret |-> r.updated]

(***************************************************************************)
(* Planes.  A plane is [n |-> unit normal * 100, d |-> offset].  Keyframe  *)
(* poses are translations along x, so Plane3D under a pose keeps its       *)
(* normal and shifts its offset.                                           *)
(***************************************************************************)
Translation(keyframe) == <<keyframe.est, 0, 0>>

plane_in_map_frame(keyframe, det_plane_body_frame) ==
  [n |-> det_plane_body_frame.n,
   d |-> det_plane_body_frame.d
           - Dot(Translation(keyframe), det_plane_body_frame.n) \div 100]

\* m2n * plane, with m2n the inverse of the keyframe pose
plane_in_body_frame(keyframe, plane) ==
  [n |-> plane.n, d |-> plane.d + Dot(Translation(keyframe), plane.n) \div 100]

\* Plane3D::ominus, squared norm in centi-units: the normals the model feeds
\* are equal or opposite, so the angular part is 0 or pi.
ominus_sq(p, q) ==
  (IF p.n = q.n THEN 0 ELSE 314 * 314) + (p.d - q.d) * (p.d - q.d)

\* error' * covariance.inverse() * error, times 4, for a covariance s * Identity;
\* a value under 1e-3 is recomputed with the identity covariance
maha_sq4(error_sq, covariance) ==
  LET m == (4 * error_sq) \div covariance
  IN IF m = 0 THEN 4 * error_sq ELSE m

PlanesOf(n, plane_type) ==
  IF plane_type = X_VERT_PLANE THEN n.x_vert_planes
  ELSE IF plane_type = Y_VERT_PLANE THEN n.y_vert_planes
  ELSE n.hort_planes

\* the for loop of associate_plane: <<min_maha_dist^2 * 4, first, second>>
RECURSIVE associate_plane_loop(_, _, _, _, _)
associate_plane_loop(planes, keyframe, det_plane, i, best) ==
  IF i > Len(planes) THEN best
  ELSE LET local_plane == plane_in_body_frame(keyframe, planes[i].plane)
           maha == maha_sq4(ominus_sq(local_plane, det_plane), planes[i].covariance)
       IN associate_plane_loop(planes, keyframe, det_plane, i + 1,
            IF maha < best[1] THEN <<maha, planes[i].id, i>> ELSE best)

\* std::pair<int,int>: first is the landmark id or -1, second its index (1-based here)
associate_plane(n, keyframe, det_plane, plane_type) ==
  LET best == associate_plane_loop(PlanesOf(n, plane_type), keyframe, det_plane, 1,
                                   <<4 * min_dist_init * min_dist_init, 0, 0>>)
  IN IF best[1] > 4 * plane_dist_threshold * plane_dist_threshold
     THEN <<NULL, best[3]>>
     ELSE <<best[2], best[3]>>

\* a variant that numbers landmarks by the edge count
new_landmark_id_edges(g) == g.num_edges

\* id of a landmark created now: graph_slam->num_vertices() read before add_*_node
new_landmark_id(g) == num_vertices(g)

RECURSIVE add_parallel_edges(_, _, _, _, _)
add_parallel_edges(g, planes, i, plane_node, id) ==
  IF i > Len(planes) THEN g
  ELSE add_parallel_edges(
         IF id # planes[i].id
         THEN add_edge(g, "plane_parallel", planes[i].plane_node, plane_node, NULL)
         ELSE g,
         planes, i + 1, plane_node, id)

mark_parallel(planes, id) ==
  [i \in 1..Len(planes) |->
     IF id # planes[i].id THEN [planes[i] EXCEPT !.parallel_pair = TRUE] ELSE planes[i]]

parallel_plane_constraint(n, plane_node, id, plane_type) ==
  IF plane_type = X_VERT_PLANE
  THEN [n EXCEPT !.graph = add_parallel_edges(@, n.x_vert_planes, 1, plane_node, id),
                 !.x_vert_planes = mark_parallel(@, id)]
  ELSE IF plane_type = Y_VERT_PLANE
  THEN [n EXCEPT !.graph = add_parallel_edges(@, n.y_vert_planes, 1, plane_node, id),
                 !.y_vert_planes = mark_parallel(@, id)]
  ELSE [n EXCEPT !.graph = add_parallel_edges(@, n.hort_planes, 1, plane_node, id)]

RECURSIVE add_perpendicular_edges(_, _, _, _)
add_perpendicular_edges(g, planes, i, plane_node) ==
  IF i > Len(planes) THEN g
  ELSE add_perpendicular_edges(
         add_edge(g, "plane_perpendicular", planes[i].plane_node, plane_node, NULL),
         planes, i + 1, plane_node)

perpendicular_plane_constraint(n, plane_node, plane_type) ==
  IF plane_type = X_VERT_PLANE
  THEN [n EXCEPT !.graph = add_perpendicular_edges(@, n.y_vert_planes, 1, plane_node)]
  ELSE IF plane_type = Y_VERT_PLANE
  THEN [n EXCEPT !.graph = add_perpendicular_edges(@, n.x_vert_planes, 1, plane_node)]
  ELSE [n EXCEPT !.graph = add_perpendicular_edges(
                             add_perpendicular_edges(@, n.x_vert_planes, 1, plane_node),
                             n.y_vert_planes, 1, plane_node)]

new_plane(id, keyframe, det_plane_map_frame, plane_node, plane_type) ==
  [id |-> id, plane |-> det_plane_map_frame,
   cloud_seg_body |-> keyframe.cloud_seg_body, keyframe_node |-> keyframe.node,
   plane_node |-> plane_node, covariance |-> 1, cloud_seg_map |-> FALSE,
   parallel_pair |-> FALSE]

\* the record of one call of factor_planes, factor_corridors or factor_rooms,
\* appended to the state the call leaves: the landmark vertex it tied the keyframe
\* to, whether it made it, the landmarks of the class before and after the call,
\* and what the call added to the graph
Logged(fn, plane_type, before, after, is_new, node, keyframe_node, pose, landmarks, landmarks_after) ==
  [after EXCEPT !.log =
     Append(@, [fn |-> fn, plane_type |-> plane_type, is_new |-> is_new, node |-> node,
                keyframe_node |-> keyframe_node, pose |-> pose,
                landmarks |-> landmarks, landmarks_after |-> landmarks_after,
                added |-> SubSeq(after.graph.added, Len(before.graph.added) + 1,
                                 Len(after.graph.added))])]

\* factor_planes: the state after it and the plane id it returns
\* factor_planes with the pose edge added only beside a new plane vertex
factor_planes_edge_when_new(n, k, det_plane_map_frame, det_plane_body_frame, plane_type) ==
  LET keyframe == n.kf[k]
      factor(data_association) ==
        LET is_new == PlanesOf(n, plane_type) = <<>> \/ data_association[1] = NULL
          id == IF is_new THEN new_landmark_id(n.graph) ELSE data_association[1]
          plane_node == IF is_new THEN num_vertices(n.graph)
                        ELSE PlanesOf(n, plane_type)[data_association[2]].plane_node
          vp == new_plane(id, keyframe, det_plane_map_frame, plane_node, plane_type)
          n1 == IF ~is_new THEN n
                ELSE IF plane_type = X_VERT_PLANE
                THEN [n EXCEPT !.graph = add_node(@, "plane"), !.x_vert_planes = Append(@, vp)]
                ELSE IF plane_type = Y_VERT_PLANE
                THEN [n EXCEPT !.graph = add_node(@, "plane"), !.y_vert_planes = Append(@, vp)]
                ELSE [n EXCEPT !.graph = add_node(@, "plane"), !.hort_planes = Append(@, vp)]
          n2 == IF ~is_new THEN n1
                ELSE [n1 EXCEPT !.graph = add_edge(@, IF use_point_to_plane
                                                      THEN "se3_point_to_plane"
                                                      ELSE "se3_plane",
                                                   keyframe.node, plane_node,
                                                   keyframe.cloud_seg_body.stamp)]
          n3 == IF use_parallel_plane_constraint /\ is_new
                THEN parallel_plane_constraint(n2, plane_node, id, plane_type) ELSE n2
          n4 == IF use_perpendicular_plane_constraint /\ is_new
                THEN perpendicular_plane_constraint(n3, plane_node, plane_type) ELSE n3
        IN [n |-> Logged("factor_planes", plane_type, n, n4, is_new, plane_node,
                         keyframe.node, <<0, 0, 0>>, PlanesOf(n, plane_type),
                         PlanesOf(n4, plane_type)),
            id |-> id]
  IN factor(associate_plane(n, keyframe, det_plane_body_frame, plane_type))

factor_planes(n, k, det_plane_map_frame, det_plane_body_frame, plane_type) ==
  LET keyframe == n.kf[k]
      factor(data_association) ==
        LET is_new == PlanesOf(n, plane_type) = <<>> \/ data_association[1] = NULL
          id == IF is_new THEN new_landmark_id(n.graph) ELSE data_association[1]
          plane_node == IF is_new THEN num_vertices(n.graph)
                        ELSE PlanesOf(n, plane_type)[data_association[2]].plane_node
          vp == new_plane(id, keyframe, det_plane_map_frame, plane_node, plane_type)
          n1 == IF ~is_new THEN n
                ELSE IF plane_type = X_VERT_PLANE
                THEN [n EXCEPT !.graph = add_node(@, "plane"), !.x_vert_planes = Append(@, vp)]
                ELSE IF plane_type = Y_VERT_PLANE
                THEN [n EXCEPT !.graph = add_node(@, "plane"), !.y_vert_planes = Append(@, vp)]
                ELSE [n EXCEPT !.graph = add_node(@, "plane"), !.hort_planes = Append(@, vp)]
          n2 == [n1 EXCEPT !.graph = add_edge(@, IF use_point_to_plane THEN "se3_point_to_plane"
                                                 ELSE "se3_plane",
                                              keyframe.node, plane_node,
                                              keyframe.cloud_seg_body.stamp)]
          n3 == IF use_parallel_plane_constraint /\ is_new
                THEN parallel_plane_constraint(n2, plane_node, id, plane_type) ELSE n2
          n4 == IF use_perpendicular_plane_constraint /\ is_new
                THEN perpendicular_plane_constraint(n3, plane_node, plane_type) ELSE n3
        IN [n |-> Logged("factor_planes", plane_type, n, n4, is_new, plane_node,
                         keyframe.node, <<0, 0, 0>>, PlanesOf(n, plane_type),
                         PlanesOf(n4, plane_type)),
            id |-> id]
  IN factor(associate_plane(n, keyframe, det_plane_body_frame, plane_type))

(***************************************************************************)
(* Corridors and rooms.                                                    *)
(***************************************************************************)
correct_plane_d_one(plane_type, plane) ==
  IF plane_type = X_VERT_PLANE /\ plane.n[1] < 0 THEN [plane EXCEPT !.d = -1 * @]
  ELSE IF plane_type = Y_VERT_PLANE /\ plane.n[2] < 0 THEN [plane EXCEPT !.d = -1 * @]
  ELSE plane

correct_plane_d(plane_type, plane1, plane2) ==
  <<correct_plane_d_one(plane_type, plane1), correct_plane_d_one(plane_type, plane2)>>

width_between_planes(v1, v2) ==
  IF Abs(v1.d) > Abs(v2.d) THEN Abs(v1.d - v2.d)
  ELSE IF Abs(v2.d) > Abs(v1.d) THEN Abs(v2.d - v1.d)
  ELSE 0

\* the two correct_plane_d calls at the head of the pair loop, on the local copy
corrected_candidates(plane_type, cands, i, j) ==
  LET p == correct_plane_d(plane_type, cands[i].plane, cands[j].plane)
      l == correct_plane_d(plane_type, cands[i].plane_local, cands[j].plane_local)
  IN [k \in 1..Len(cands) |->
        IF k = i THEN [cands[k] EXCEPT !.plane = p[1], !.plane_local = l[1]]
        ELSE IF k = j THEN [cands[k] EXCEPT !.plane = p[2], !.plane_local = l[2]]
        ELSE cands[k]]

corridor_pair_ok(ci, cj, width, diff_plane_length) ==
  /\ Dot(ci.plane.n, cj.plane.n) < 0
  /\ width < corridor_max_width
  /\ width > corridor_min_width
  /\ diff_plane_length < corridor_plane_length_diff_threshold

room_pair_ok(ci, cj, width, diff_plane_length) ==
  /\ Dot(ci.plane.n, cj.plane.n) < 0
  /\ width > room_min_width
  /\ diff_plane_length < room_plane_length_diff_threshold

\* the nested for loops of sort_corridors / sort_rooms; is_room selects the test
RECURSIVE sort_pairs_loop(_, _, _, _, _, _)
sort_pairs_loop(plane_type, cands, i, j, acc, is_room) ==
  IF i > Len(cands) THEN acc
  ELSE IF j > Len(cands) THEN sort_pairs_loop(plane_type, cands, i + 1, i + 2, acc, is_room)
  ELSE LET c == corrected_candidates(plane_type, cands, i, j)
           width == width_between_planes(c[i].plane, c[j].plane)
           diff_plane_length == Abs(c[i].plane_length - c[j].plane_length)
           ok == IF is_room THEN room_pair_ok(c[i], c[j], width, diff_plane_length)
                 ELSE corridor_pair_ok(c[i], c[j], width, diff_plane_length)
           pair == [plane1 |-> c[i], plane2 |-> c[j], width |-> width,
                    length_diff |-> diff_plane_length]
       IN sort_pairs_loop(plane_type, c, i, j + 1,
                          IF ok THEN Append(acc, pair) ELSE acc, is_room)

sort_corridors(plane_type, corridor_candidates) ==
  sort_pairs_loop(plane_type, corridor_candidates, 1, 2, <<>>, FALSE)

sort_rooms(plane_type, room_candidates) ==
  sort_pairs_loop(plane_type, room_candidates, 1, 2, <<>>, TRUE)

\* a variant of the loop that also takes a pair of equal length difference
RECURSIVE refine_corridors_loop_equal(_, _, _, _)
refine_corridors_loop_equal(corr_vec, i, min_corr_length_diff, corr_refined) ==
  IF i > Len(corr_vec) THEN <<min_corr_length_diff, corr_refined>>
  ELSE IF corr_vec[i].length_diff <= min_corr_length_diff
       THEN refine_corridors_loop_equal(corr_vec, i + 1, corr_vec[i].length_diff,
                                        <<corr_vec[i].plane1, corr_vec[i].plane2>>)
       ELSE refine_corridors_loop_equal(corr_vec, i + 1, min_corr_length_diff,
                                        corr_refined)

RECURSIVE refine_corridors_loop(_, _, _, _)
refine_corridors_loop(corr_vec, i, min_corr_length_diff, corr_refined) ==
  IF i > Len(corr_vec) THEN <<min_corr_length_diff, corr_refined>>
  ELSE IF corr_vec[i].length_diff < min_corr_length_diff
       THEN refine_corridors_loop(corr_vec, i + 1, corr_vec[i].length_diff,
                                  <<corr_vec[i].plane1, corr_vec[i].plane2>>)
       ELSE refine_corridors_loop(corr_vec, i + 1, min_corr_length_diff, corr_refined)

refine_corridors(corr_vec) ==
  LET r == refine_corridors_loop(corr_vec, 1, min_corr_length_diff_init, <<>>)
  IN IF r[1] >= min_corr_length_diff_init THEN <<>> ELSE r[2]

\* a variant of the loop that also takes a combination of equal width difference
RECURSIVE refine_rooms_loop_equal(_, _, _, _, _, _)
refine_rooms_loop_equal(x_room_vec, y_room_vec, i, j, min_width_diff, best) ==
  IF i > Len(x_room_vec) THEN <<min_width_diff, best>>
  ELSE IF j > Len(y_room_vec)
       THEN refine_rooms_loop_equal(x_room_vec, y_room_vec, i + 1, 1, min_width_diff, best)
  ELSE LET width_diff == Abs(x_room_vec[i].width - y_room_vec[j].width)
       IN IF width_diff <= min_width_diff
          THEN refine_rooms_loop_equal(x_room_vec, y_room_vec, i, j + 1, width_diff,
                 <<<<x_room_vec[i].plane1, x_room_vec[i].plane2>>,
                   <<y_room_vec[j].plane1, y_room_vec[j].plane2>>>>)
          ELSE refine_rooms_loop_equal(x_room_vec, y_room_vec, i, j + 1, min_width_diff,
                                       best)

RECURSIVE refine_rooms_loop(_, _, _, _, _, _)
refine_rooms_loop(x_room_vec, y_room_vec, i, j, min_width_diff, best) ==
  IF i > Len(x_room_vec) THEN <<min_width_diff, best>>
  ELSE IF j > Len(y_room_vec)
       THEN refine_rooms_loop(x_room_vec, y_room_vec, i + 1, 1, min_width_diff, best)
  ELSE LET width_diff == Abs(x_room_vec[i].width - y_room_vec[j].width)
       IN IF width_diff < min_width_diff
          THEN refine_rooms_loop(x_room_vec, y_room_vec, i, j + 1, width_diff,
                 <<<<x_room_vec[i].plane1, x_room_vec[i].plane2>>,
                   <<y_room_vec[j].plane1, y_room_vec[j].plane2>>>>)
          ELSE refine_rooms_loop(x_room_vec, y_room_vec, i, j + 1, min_width_diff, best)

refine_rooms(x_room_vec, y_room_vec) ==
  LET r == refine_rooms_loop(x_room_vec, y_room_vec, 1, 1, refine_rooms_init, <<<<>>, <<>>>>)
  IN IF r[1] >= refine_rooms_init THEN <<<<>>, <<>>>> ELSE r[2]

\* midpoint of the two offsets, as pre_corridor_pose and compute_room_pose take it
mid_offset(v1, v2) ==
  IF Abs(v1.d) > Abs(v2.d) THEN (v1.d - v2.d) \div 2 + v2.d
  ELSE (v2.d - v1.d) \div 2 + v1.d

pre_corridor_pose(plane_type, v1, v2) ==
  IF plane_type = X_VERT_PLANE THEN <<mid_offset(v1, v2), 0, 0>>
  ELSE IF plane_type = Y_VERT_PLANE THEN <<0, mid_offset(v1, v2), 0>>
  ELSE <<0, 0, 0>>

final_corridor_pose(plane_type, pre_corr_pose, keyframe_trans) ==
  IF plane_type = X_VERT_PLANE
  THEN <<pre_corr_pose[1], keyframe_trans[2], keyframe_trans[3]>>
  ELSE <<keyframe_trans[1], pre_corr_pose[2], keyframe_trans[3]>>

CorridorsOf(n, plane_type) ==
  IF plane_type = X_VERT_PLANE THEN n.x_corridors ELSE n.y_corridors

\* a variant whose comparison is turned round
RECURSIVE associate_corridors_loop_farthest(_, _, _, _, _)
associate_corridors_loop_farthest(corridors, axis, corr_pose, i, best) ==
  IF i > Len(corridors) THEN best
  ELSE LET dist == Abs(corr_pose[axis] - corridors[i].pose[axis])
       IN associate_corridors_loop_farthest(corridors, axis, corr_pose, i + 1,
            IF dist > best[1] THEN <<dist, corridors[i].id, i>> ELSE best)

RECURSIVE associate_corridors_loop(_, _, _, _, _)
associate_corridors_loop(corridors, axis, corr_pose, i, best) ==
  IF i > Len(corridors) THEN best
  ELSE LET dist == Abs(corr_pose[axis] - corridors[i].pose[axis])
       IN associate_corridors_loop(corridors, axis, corr_pose, i + 1,
            IF dist < best[1] THEN <<dist, corridors[i].id, i>> ELSE best)

\* a variant that does not reuse a corridor at exactly the threshold
associate_corridors_strict(n, plane_type, corr_pose) ==
  LET best == associate_corridors_loop(CorridorsOf(n, plane_type),
                                       IF plane_type = X_VERT_PLANE THEN 1 ELSE 2,
                                       corr_pose, 1, <<min_dist_init, NULL, 0>>)
  IN IF best[1] >= corridor_dist_threshold THEN <<NULL, best[3]>> ELSE <<best[2], best[3]>>

associate_corridors(n, plane_type, corr_pose) ==
  LET best == associate_corridors_loop(CorridorsOf(n, plane_type),
                                       IF plane_type = X_VERT_PLANE THEN 1 ELSE 2,
                                       corr_pose, 1, <<min_dist_init, NULL, 0>>)
  IN IF best[1] > corridor_dist_threshold THEN <<NULL, best[3]>> ELSE <<best[2], best[3]>>

\* std::find_if over a plane collection: the plane vertex of the plane with this id
\* (NULL stands for the end iterator)
find_plane_node(planes, plane_id) ==
  IF \E i \in 1..Len(planes) : planes[i].id = plane_id
  THEN planes[CHOOSE i \in 1..Len(planes) :
                /\ planes[i].id = plane_id
                /\ \A j \in 1..i - 1 : planes[j].id # plane_id].plane_node
  ELSE NULL

\* factor_corridors with the edge to the second plane of the pair left out
factor_corridors_one_plane(n, plane_type, corr_plane1_pair, corr_plane2_pair) ==
  LET pre_corr_pose == pre_corridor_pose(plane_type, corr_plane1_pair.plane,
                                         corr_plane2_pair.plane)
      factor(corr_data_association) ==
        LET is_new == CorridorsOf(n, plane_type) = <<>> \/ corr_data_association[1] = NULL
          id == IF is_new THEN new_landmark_id(n.graph) ELSE corr_data_association[1]
          corr_node == IF is_new THEN num_vertices(n.graph)
                       ELSE CorridorsOf(n, plane_type)[corr_data_association[2]].node
          det_corridor ==
            [id |-> id, plane1 |-> corr_plane1_pair.plane, plane2 |-> corr_plane2_pair.plane,
             plane1_id |-> corr_plane1_pair.plane_id, plane2_id |-> corr_plane2_pair.plane_id,
             keyframe_trans |-> corr_plane1_pair.keyframe_trans, node |-> corr_node,
             pose |-> final_corridor_pose(plane_type, pre_corr_pose,
                                          corr_plane1_pair.keyframe_trans)]
          n1 == IF ~is_new THEN n
                ELSE IF plane_type = X_VERT_PLANE
                THEN [n EXCEPT !.graph = add_node(@, "corridor"), !.x_corridors = Append(@, det_corridor)]
                ELSE [n EXCEPT !.graph = add_node(@, "corridor"), !.y_corridors = Append(@, det_corridor)]
          planes == PlanesOf(n1, plane_type)
          kind == IF plane_type = X_VERT_PLANE THEN "corridor_xplane" ELSE "corridor_yplane"
          g1 == add_edge(n1.graph, "se3_corridor", corr_plane1_pair.keyframe_node, corr_node, NULL)
          g2 == add_edge(g1, kind, corr_node, find_plane_node(planes, corr_plane1_pair.plane_id), NULL)
          g3 == g2
          after == IF plane_type \in {X_VERT_PLANE, Y_VERT_PLANE}
                   THEN [n1 EXCEPT !.graph = g3] ELSE n
        IN Logged("factor_corridors", plane_type, n, after, is_new, corr_node,
                  corr_plane1_pair.keyframe_node, pre_corr_pose,
                  CorridorsOf(n, plane_type), CorridorsOf(after, plane_type))
  IN factor(associate_corridors(n, plane_type, pre_corr_pose))

factor_corridors(n, plane_type, corr_plane1_pair, corr_plane2_pair) ==
  LET pre_corr_pose == pre_corridor_pose(plane_type, corr_plane1_pair.plane,
                                         corr_plane2_pair.plane)
      factor(corr_data_association) ==
        LET is_new == CorridorsOf(n, plane_type) = <<>> \/ corr_data_association[1] = NULL
          id == IF is_new THEN new_landmark_id(n.graph) ELSE corr_data_association[1]
          corr_node == IF is_new THEN num_vertices(n.graph)
                       ELSE CorridorsOf(n, plane_type)[corr_data_association[2]].node
          det_corridor ==
            [id |-> id, plane1 |-> corr_plane1_pair.plane, plane2 |-> corr_plane2_pair.plane,
             plane1_id |-> corr_plane1_pair.plane_id, plane2_id |-> corr_plane2_pair.plane_id,
             keyframe_trans |-> corr_plane1_pair.keyframe_trans, node |-> corr_node,
             pose |-> final_corridor_pose(plane_type, pre_corr_pose,
                                          corr_plane1_pair.keyframe_trans)]
          n1 == IF ~is_new THEN n
                ELSE IF plane_type = X_VERT_PLANE
                THEN [n EXCEPT !.graph = add_node(@, "corridor"), !.x_corridors = Append(@, det_corridor)]
                ELSE [n EXCEPT !.graph = add_node(@, "corridor"), !.y_corridors = Append(@, det_corridor)]
          planes == PlanesOf(n1, plane_type)
          kind == IF plane_type = X_VERT_PLANE THEN "corridor_xplane" ELSE "corridor_yplane"
          g1 == add_edge(n1.graph, "se3_corridor", corr_plane1_pair.keyframe_node, corr_node, NULL)
          g2 == add_edge(g1, kind, corr_node, find_plane_node(planes, corr_plane1_pair.plane_id), NULL)
          g3 == add_edge(g2, kind, corr_node, find_plane_node(planes, corr_plane2_pair.plane_id), NULL)
          after == IF plane_type \in {X_VERT_PLANE, Y_VERT_PLANE}
                   THEN [n1 EXCEPT !.graph = g3] ELSE n
        IN Logged("factor_corridors", plane_type, n, after, is_new, corr_node,
                  corr_plane1_pair.keyframe_node, pre_corr_pose,
                  CorridorsOf(n, plane_type), CorridorsOf(after, plane_type))
  IN factor(associate_corridors(n, plane_type, pre_corr_pose))

compute_room_pose(x_room_pair_vec, y_room_pair_vec) ==
  <<-1 * mid_offset(x_room_pair_vec[1].plane, x_room_pair_vec[2].plane),
    -1 * mid_offset(y_room_pair_vec[1].plane, y_room_pair_vec[2].plane)>>

RECURSIVE associate_rooms_loop(_, _, _, _)
associate_rooms_loop(rooms, room_pose, i, best) ==
  IF i > Len(rooms) THEN best
  ELSE LET diff_x == room_pose[1] - rooms[i].pose[1]
           diff_y == room_pose[2] - rooms[i].pose[2]
           dist_sq == diff_x * diff_x + diff_y * diff_y
       IN associate_rooms_loop(rooms, room_pose, i + 1,
            IF dist_sq < best[1] THEN <<dist_sq, rooms[i].id, i>> ELSE best)

associate_rooms(n, room_pose) ==
  LET best == associate_rooms_loop(n.rooms_vec, room_pose, 1,
                                   <<min_dist_init * min_dist_init, NULL, 0>>)
  IN IF best[1] > room_dist_threshold * room_dist_threshold
     THEN <<NULL, best[3]>> ELSE <<best[2], best[3]>>

factor_rooms(n, x_room_pair_vec, y_room_pair_vec) ==
  LET room_pose == compute_room_pose(x_room_pair_vec, y_room_pair_vec)
      factor(room_data_association) ==
        LET is_new == n.rooms_vec = <<>> \/ room_data_association[1] = NULL
          id == IF is_new THEN new_landmark_id(n.graph) ELSE room_data_association[1]
          room_node == IF is_new THEN num_vertices(n.graph)
                       ELSE n.rooms_vec[room_data_association[2]].node
          det_room ==
            [id |-> id,
             plane_x1 |-> x_room_pair_vec[1].plane, plane_x2 |-> x_room_pair_vec[2].plane,
             plane_y1 |-> y_room_pair_vec[1].plane, plane_y2 |-> y_room_pair_vec[2].plane,
             plane_x1_id |-> x_room_pair_vec[1].plane_id, plane_x2_id |-> x_room_pair_vec[2].plane_id,
             plane_y1_id |-> y_room_pair_vec[1].plane_id, plane_y2_id |-> y_room_pair_vec[2].plane_id,
             node |-> room_node, pose |-> room_pose]
          n1 == IF is_new
                THEN [n EXCEPT !.graph = add_node(@, "room"), !.rooms_vec = Append(@, det_room)]
                ELSE n
          g1 == add_edge(n1.graph, "se3_room", x_room_pair_vec[1].keyframe_node, room_node, NULL)
          g2 == add_edge(g1, "room_xplane", room_node,
                         find_plane_node(n1.x_vert_planes, x_room_pair_vec[1].plane_id), NULL)
          g3 == add_edge(g2, "room_xplane", room_node,
                         find_plane_node(n1.x_vert_planes, x_room_pair_vec[2].plane_id), NULL)
          g4 == add_edge(g3, "room_yplane", room_node,
                         find_plane_node(n1.y_vert_planes, y_room_pair_vec[1].plane_id), NULL)
          g5 == add_edge(g4, "room_yplane", room_node,
                         find_plane_node(n1.y_vert_planes, y_room_pair_vec[2].plane_id), NULL)
        IN Logged("factor_rooms", NULL, n, [n1 EXCEPT !.graph = g5], is_new, room_node,
                  x_room_pair_vec[1].keyframe_node, <<room_pose[1], room_pose[2], 0>>,
                  n.rooms_vec, n1.rooms_vec)
  IN factor(associate_rooms(n, room_pose))

(***************************************************************************)
(* flush_clouds_seg_queue.  A segmented-clouds message is                  *)
(* [stamp, pointclouds]; a cloud is [stamp, size, n, d, length]: its point *)
(* count, the plane its last point carries, and its longest segment.       *)
(***************************************************************************)
plane_length(cloud_seg) == cloud_seg.length

plane_class_of(det_plane_map_frame) ==
  IF Abs(det_plane_map_frame.n[1]) > normal_gate THEN X_VERT_PLANE
  ELSE IF Abs(det_plane_map_frame.n[2]) > normal_gate THEN Y_VERT_PLANE
  ELSE IF Abs(det_plane_map_frame.n[3]) > normal_gate THEN HORT_PLANE
  ELSE NULL

\* a variant whose candidates carry the number of vertices after factor_planes,
\* not the id factor_planes returned
seg_cloud_iter_vertex_count(s, cloud_seg_msg) ==
  LET k  == s.n.keyframe_hash[cloud_seg_msg.stamp]
      n1 == [s.n EXCEPT !.kf[k].cloud_seg_body = cloud_seg_msg]
      det_plane_body_frame == [n |-> cloud_seg_msg.n, d |-> cloud_seg_msg.d]
      det_plane_map_frame  == plane_in_map_frame(n1.kf[k], det_plane_body_frame)
      plane_type == plane_class_of(det_plane_map_frame)
      length == plane_length(n1.kf[k].cloud_seg_body)
      corr == length >= corridor_min_plane_length
      room == length >= room_min_plane_length /\ length <= room_max_plane_length
      \* r: what factor_planes answered
      candidates(r) ==
        LET plane_id_pair ==
              [plane |-> det_plane_map_frame, plane_local |-> det_plane_body_frame,
               plane_length |-> length, plane_id |-> num_vertices(r.n.graph),
               keyframe_node |-> n1.kf[k].node, keyframe_trans |-> Translation(n1.kf[k])]
        IN IF plane_type = X_VERT_PLANE
           THEN [s EXCEPT !.n = r.n, !.updated = TRUE,
                          !.x_det_corridor_candidates = IF corr THEN Append(@, plane_id_pair) ELSE @,
                          !.x_det_room_candidates = IF room THEN Append(@, plane_id_pair) ELSE @]
           ELSE IF plane_type = Y_VERT_PLANE
           THEN [s EXCEPT !.n = r.n, !.updated = TRUE,
                          !.y_det_corridor_candidates = IF corr THEN Append(@, plane_id_pair) ELSE @,
                          !.y_det_room_candidates = IF room THEN Append(@, plane_id_pair) ELSE @]
           ELSE [s EXCEPT !.n = r.n, !.updated = TRUE]
  IN IF plane_type = NULL THEN [s EXCEPT !.n = n1]
     ELSE candidates(factor_planes(n1, k, det_plane_map_frame, det_plane_body_frame,
                                   plane_type))

\* one cloud that passed the stamp, hash and size tests; s holds the state, the
\* updated flag and the four candidate lists of the enclosing message
seg_cloud_iter(s, cloud_seg_msg) ==
  LET k  == s.n.keyframe_hash[cloud_seg_msg.stamp]
      n1 == [s.n EXCEPT !.kf[k].cloud_seg_body = cloud_seg_msg]
      det_plane_body_frame == [n |-> cloud_seg_msg.n, d |-> cloud_seg_msg.d]
      det_plane_map_frame  == plane_in_map_frame(n1.kf[k], det_plane_body_frame)
      plane_type == plane_class_of(det_plane_map_frame)
      length == plane_length(n1.kf[k].cloud_seg_body)
      corr == length >= corridor_min_plane_length
      room == length >= room_min_plane_length /\ length <= room_max_plane_length
      \* r: what factor_planes answered
      candidates(r) ==
        LET plane_id_pair ==
              [plane |-> det_plane_map_frame, plane_local |-> det_plane_body_frame,
               plane_length |-> length, plane_id |-> r.id,
               keyframe_node |-> n1.kf[k].node, keyframe_trans |-> Translation(n1.kf[k])]
        IN IF plane_type = X_VERT_PLANE
           THEN [s EXCEPT !.n = r.n, !.updated = TRUE,
                          !.x_det_corridor_candidates = IF corr THEN Append(@, plane_id_pair) ELSE @,
                          !.x_det_room_candidates = IF room THEN Append(@, plane_id_pair) ELSE @]
           ELSE IF plane_type = Y_VERT_PLANE
           THEN [s EXCEPT !.n = r.n, !.updated = TRUE,
                          !.y_det_corridor_candidates = IF corr THEN Append(@, plane_id_pair) ELSE @,
                          !.y_det_room_candidates = IF room THEN Append(@, plane_id_pair) ELSE @]
           ELSE [s EXCEPT !.n = r.n, !.updated = TRUE]
  IN IF plane_type = NULL THEN [s EXCEPT !.n = n1]
     ELSE candidates(factor_planes(n1, k, det_plane_map_frame, det_plane_body_frame,
                                   plane_type))

RECURSIVE seg_clouds_loop(_, _, _, _)
seg_clouds_loop(s, pointclouds, i, latest_keyframe_stamp) ==
  IF i > Len(pointclouds) THEN s
  ELSE LET cloud_seg_msg == pointclouds[i]
       IN IF cloud_seg_msg.stamp > latest_keyframe_stamp THEN s
          ELSE IF \/ cloud_seg_msg.stamp \notin DOMAIN s.n.keyframe_hash
                  \/ cloud_seg_msg.size < min_seg_points
               THEN seg_clouds_loop(s, pointclouds, i + 1, latest_keyframe_stamp)
               ELSE seg_clouds_loop(seg_cloud_iter(s, cloud_seg_msg), pointclouds, i + 1,
                                    latest_keyframe_stamp)

\* one message of the queue: its clouds, then its corridors and rooms
seg_msg_iter(n, updated, clouds_seg_msg, latest_keyframe_stamp) ==
  LET \* s: the state and the candidate lists after the loop over the clouds
      rooms(s, n2) ==
        LET refined_room_pair ==
              refine_rooms(sort_rooms(X_VERT_PLANE, s.x_det_room_candidates),
                           sort_rooms(Y_VERT_PLANE, s.y_det_room_candidates))
        IN [n |-> IF /\ use_room_constraint
                     /\ Len(refined_room_pair[1]) = 2 /\ Len(refined_room_pair[2]) = 2
                  THEN factor_rooms(n2, refined_room_pair[1], refined_room_pair[2])
                  ELSE n2,
            updated |-> s.updated]
      corridors_y(s, n1) ==
        LET y_corridor_refined ==
              refine_corridors(sort_corridors(Y_VERT_PLANE, s.y_det_corridor_candidates))
        IN rooms(s, IF use_corridor_constraint /\ Len(y_corridor_refined) = 2
                    THEN factor_corridors(n1, Y_VERT_PLANE, y_corridor_refined[1],
                                          y_corridor_refined[2])
                    ELSE n1)
      corridors_x(s) ==
        LET x_corridor_refined ==
              refine_corridors(sort_corridors(X_VERT_PLANE, s.x_det_corridor_candidates))
        IN corridors_y(s, IF use_corridor_constraint /\ Len(x_corridor_refined) = 2
                          THEN factor_corridors(s.n, X_VERT_PLANE, x_corridor_refined[1],
                                                x_corridor_refined[2])
                          ELSE s.n)
  IN corridors_x(seg_clouds_loop([n |-> n, updated |-> updated,
                                  x_det_corridor_candidates |-> <<>>,
                                  y_det_corridor_candidates |-> <<>>,
                                  x_det_room_candidates |-> <<>>,
                                  y_det_room_candidates |-> <<>>],
                                 clouds_seg_msg.pointclouds, 1, latest_keyframe_stamp))

RECURSIVE flush_clouds_seg_loop(_, _, _, _, _)
flush_clouds_seg_loop(n, queue, i, latest_keyframe_stamp, updated) ==
  IF i > Len(queue) THEN [n |-> n, updated |-> updated]
  ELSE LET next(r) ==
             flush_clouds_seg_loop(r.n, queue, i + 1, latest_keyframe_stamp, r.updated)
       IN next(seg_msg_iter(n, updated, queue[i], latest_keyframe_stamp))

\* a variant that goes through the whole queue and erases its first message only
flush_clouds_seg_queue_first(n) ==
  IF n.keyframes = <<>> \/ n.clouds_seg_queue = <<>>
  THEN [n |-> n, ret |-> FALSE]
  ELSE LET latest_keyframe_stamp == n.kf[Last(n.keyframes)].stamp
           remove_loc == Min(1, upper_bound(n.clouds_seg_queue, latest_keyframe_stamp))
           erase(r) == [n |-> [r.n EXCEPT !.clouds_seg_queue = Drop(@, remove_loc)],
                        ret |-> r.updated]
       IN erase(flush_clouds_seg_loop(n, n.clouds_seg_queue, 1, latest_keyframe_stamp,
                                      FALSE))

flush_clouds_seg_queue(n) ==
  IF n.keyframes = <<>> \/ n.clouds_seg_queue = <<>>
  THEN [n |-> n, ret |-> FALSE]
  ELSE LET latest_keyframe_stamp == n.kf[Last(n.keyframes)].stamp
           remove_loc == upper_bound(n.clouds_seg_queue, latest_keyframe_stamp)
           erase(r) == [n |-> [r.n EXCEPT !.clouds_seg_queue = Drop(@, remove_loc)],
                        ret |-> r.updated]
       IN erase(flush_clouds_seg_loop(n, n.clouds_seg_queue, 1, latest_keyframe_stamp,
                                      FALSE))

(***************************************************************************)
(* compute_plane_cov and convert_plane_points_to_map.                      *)
(***************************************************************************)
\* what compute_landmark_marginals hands back: nothing when it fails, else the
\* blocks of the planes at even and at odd vertices: 0 for a block whose Cholesky
\* factorisation reports a numerical issue, else the block's scale
NoMarginals == <<>>
CovOutcomes == {NoMarginals, <<4, 4>>, <<0, 4>>}

BlockOf(block, plane_node) == block[(plane_node % 2) + 1]

\* a variant that leaves the covariance of a plane whose block fails as it was
set_covariance_stale(planes, block) ==
  [i \in 1..Len(planes) |->
     [planes[i] EXCEPT !.covariance = IF BlockOf(block, planes[i].plane_node) = 0 THEN @
                                      ELSE BlockOf(block, planes[i].plane_node)]]

set_covariance(planes, block) ==
  [i \in 1..Len(planes) |->
     [planes[i] EXCEPT !.covariance = IF BlockOf(block, planes[i].plane_node) = 0 THEN 1
                                      ELSE BlockOf(block, planes[i].plane_node)]]

compute_plane_cov(n, block) ==
  IF n.x_vert_planes = <<>> /\ n.y_vert_planes = <<>> /\ n.hort_planes = <<>> THEN n
  ELSE IF block = NoMarginals THEN n
  ELSE [n EXCEPT !.x_vert_planes = set_covariance(@, block),
                 !.y_vert_planes = set_covariance(@, block),
                 !.hort_planes = set_covariance(@, block)]

\* cloud_seg_map is assigned inside the loop over the points of cloud_seg_body
map_plane_points(planes) ==
  [i \in 1..Len(planes) |->
     IF planes[i].cloud_seg_body.size > 0
     THEN [planes[i] EXCEPT !.cloud_seg_map = TRUE] ELSE planes[i]]

convert_plane_points_to_map(n) ==
  [n EXCEPT !.x_vert_planes = map_plane_points(@),
            !.y_vert_planes = map_plane_points(@),
            !.hort_planes = map_plane_points(@)]

(***************************************************************************)
(* optimization_timer_callback.                                            *)
(***************************************************************************)
Drains == {"floor", "gps", "imu", "seg"}

\* the operands of the bitwise & are called in an order the compiler picks
DrainOrders == {<<"floor", "gps", "imu", "seg">>, <<"seg", "imu", "gps", "floor">>}

run_drain(n, name) ==
  IF name = "floor" THEN flush_floor_queue(n)
  ELSE IF name = "gps" THEN flush_gps_queue(n)
  ELSE IF name = "imu" THEN flush_imu_queue(n)
  ELSE flush_clouds_seg_queue(n)

\* t: the state, each drain's result so far, the drains called so far, and
\* which of them added a vertex or an edge
RECURSIVE run_drains(_, _, _)
run_drains(t, order, i) ==
  IF i > Len(order) THEN t
  ELSE LET next(r) ==
             run_drains([n |-> r.n, rets |-> [t.rets EXCEPT ![order[i]] = r.ret],
                         ran |-> t.ran \cup {order[i]},
                         grew |-> [t.grew EXCEPT ![order[i]] = r.n.graph # t.n.graph]],
                        order, i + 1)
       IN next(run_drain(t.n, order[i]))

\* a variant with the short-circuit &&: operands are evaluated left to right
\* until one is false
RECURSIVE run_drains_short_circuit(_, _, _)
run_drains_short_circuit(t, order, i) ==
  IF i > Len(order) THEN t
  ELSE LET next(r) ==
             LET t1 == [n |-> r.n, rets |-> [t.rets EXCEPT ![order[i]] = r.ret],
                        ran |-> t.ran \cup {order[i]},
                        grew |-> [t.grew EXCEPT ![order[i]] = r.n.graph # t.n.graph]]
             IN IF r.ret THEN t1 ELSE run_drains_short_circuit(t1, order, i + 1)
       IN next(run_drain(t.n, order[i]))

aux_drains_short_circuit(n, keyframe_updated, order) ==
  LET t == [n |-> n, rets |-> [d \in Drains |-> FALSE], ran |-> {},
            grew |-> [d \in Drains |-> FALSE]]
  IN IF keyframe_updated THEN t
     ELSE run_drains_short_circuit(t, <<"floor", "gps", "imu", "seg">>, 1)

\* !keyframe_updated & !flush_floor_queue() & !flush_gps_queue() & !flush_imu_queue()
\* & !flush_clouds_seg_queue(): every operand is evaluated
aux_drains(n, keyframe_updated, order) ==
  run_drains([n |-> n, rets |-> [d \in Drains |-> FALSE], ran |-> {},
              grew |-> [d \in Drains |-> FALSE]], order, 1)

nothing_updated(keyframe_updated, rets) ==
  ~keyframe_updated /\ \A d \in Drains : ~rets[d]

\* loop_detector->detect: at most one loop, between the oldest committed keyframe
\* and the first staged one
add_loop_edges(n, loop) ==
  IF loop /\ n.keyframes # <<>> /\ n.new_keyframes # <<>>
  THEN [n EXCEPT !.graph = add_edge(@, "se3_loop", n.kf[n.keyframes[1]].node,
                                    n.kf[n.new_keyframes[1]].node, NULL)]
  ELSE n

\* a variant that copies the staging list and does not clear it
merge_new_keyframes_kept(n) == [n EXCEPT !.keyframes = @ \o n.new_keyframes]

merge_new_keyframes(n) ==
  [n EXCEPT !.keyframes = @ \o n.new_keyframes, !.new_keyframes = <<>>]

KeyFrameSnapshot(n, k) == [keyframe |-> k, pose |-> n.kf[k].est]

\* a variant that gives the tick up when the optimisation did not iterate
tick_rest_fatal(n, loop, num_iterations, block) ==
  LET n1 == merge_new_keyframes(add_loop_edges(n, loop))
      n2 == compute_plane_cov(n1, block)
      keyframe == n2.kf[Last(n2.keyframes)]
  IN IF num_iterations <= 0 THEN n1
     ELSE [n2 EXCEPT !.trans_odom2map = keyframe.est - keyframe.odom,
                     !.keyframes_snapshot =
                        [i \in 1..Len(n2.keyframes) |-> KeyFrameSnapshot(n2, n2.keyframes[i])],
                     !.graph_updated = TRUE]

\* from loop detection to the snapshot swap
tick_rest(n, loop, num_iterations, block) ==
  LET n1 == merge_new_keyframes(add_loop_edges(n, loop))
      n2 == IF num_iterations > 0 THEN compute_plane_cov(n1, block) ELSE n1
      keyframe == n2.kf[Last(n2.keyframes)]
  IN [n2 EXCEPT !.trans_odom2map = keyframe.est - keyframe.odom,
                !.keyframes_snapshot =
                   [i \in 1..Len(n2.keyframes) |-> KeyFrameSnapshot(n2, n2.keyframes[i])],
                !.graph_updated = TRUE]

\* keyframes.back() of an empty vector is a dangling reference: reading through
\* it kills the process, or gives whatever number lies there
BackOutcomes ==
  {[dies |-> TRUE, trans |-> 0], [dies |-> FALSE, trans |-> 0], [dies |-> FALSE, trans |-> 7]}

\* from loop detection on, when no keyframe is committed at the publish step
tick_rest_undefined(n, loop, num_iterations, block, back) ==
  LET published(n2) ==
        IF back.dies THEN n2
        ELSE [n2 EXCEPT !.trans_odom2map = back.trans,
                        !.keyframes_snapshot = <<>>,
                        !.graph_updated = TRUE]
      optimized(n1) ==
        published(IF num_iterations > 0 THEN compute_plane_cov(n1, block) ELSE n1)
  IN optimized(merge_new_keyframes(add_loop_edges(n, loop)))

\* the whole callback: the state after it and the record of what it did;
\* back is what keyframes.back() gives where it is undefined
optimization_timer_back(n, order, loop, num_iterations, block, back) ==
  LET \* k: what flush_keyframe_queue answered; a: what the four drains did
      rest(k, a) ==
        LET early == nothing_updated(k.ret, a.rets)
            empty == a.n.keyframes = <<>> /\ a.n.new_keyframes = <<>>
        IN [n |-> IF early THEN a.n
                  ELSE IF empty
                       THEN tick_rest_undefined(a.n, loop, num_iterations, block, back)
                       ELSE tick_rest(a.n, loop, num_iterations, block),
            trace |-> [ticked |-> TRUE, keyframe_updated |-> k.ret,
                       keyframe_grew |-> k.n.graph # n.graph,
                       rets |-> a.rets, ran |-> a.ran, grew |-> a.grew,
                       loop_detection |-> ~early, optimize |-> ~early,
                       calls |-> a.n.log,
                       solved |-> IF early THEN <<0, NoMarginals>>
                                  ELSE <<num_iterations, block>>],
            crashed |-> ~early /\ empty /\ back.dies]
      aux(k) == rest(k, aux_drains(k.n, k.ret, order))
  IN aux(flush_keyframe_queue(n))

\* the callback where max_keyframes_per_update is at least 1: no tick asks for back
optimization_timer(n, order, loop, num_iterations, block) ==
  optimization_timer_back(n, order, loop, num_iterations, block,
                          [dies |-> TRUE, trans |-> 0])

(***************************************************************************)
(* Messages the callbacks receive.                                         *)
(***************************************************************************)
Stamps == 1..MaxStamp

\* the stamps the clouds that become keyframes carry; those of the floor and
\* segment detectors (before a keyframe, at one, after all of them); those of the
\* GPS and IMU (the same, and at the second keyframe)
KeyframeStamps == {st \in Stamps : st \in {2, 3}}
AuxStamps == {st \in Stamps : st <= 2 \/ st = MaxStamp}
PoseStamps == {st \in Stamps : st <= 3 \/ st = MaxStamp}

\* update: what keyframe_updater->update(odom) answers
CloudMessages ==
  {[stamp |-> stamp, update |-> TRUE] : stamp \in KeyframeStamps}
    \cup {[stamp |-> 1, update |-> FALSE]}

\* status_A: the sentence parses with status 'A'
NmeaSentences ==
  {[stamp |-> stamp, status_A |-> TRUE] : stamp \in PoseStamps}
    \cup {[stamp |-> 1, status_A |-> FALSE]}

\* empty: the message carries no coefficients
FloorMessages ==
  {[stamp |-> stamp, empty |-> FALSE] : stamp \in AuxStamps}
    \cup {[stamp |-> 1, empty |-> TRUE]}

\* the odometry pose of a cloud: the robot advances 1 m along x per 0.2 s
odom_of(stamp) == 100 * (stamp - 1)

NoCloud == [stamp |-> 0, size |-> 0, n |-> <<0, 0, 0>>, d |-> 0, length |-> 0]

KeyFrame(stamp, odom) ==
  [stamp |-> stamp, odom |-> odom, node |-> NULL, est |-> 0,
   utm_coord |-> FALSE, acceleration |-> FALSE, floor_coeffs |-> FALSE,
   cloud_seg_body |-> NoCloud]

Cloud(stamp, size, normal, d, length) ==
  [stamp |-> stamp, size |-> size, n |-> normal, d |-> d, length |-> length]

\* the two walls of a corridor across the way of the robot, and its ceiling
CrossWalls(stamp) ==
  <<Cloud(stamp, 150, <<100, 0, 0>>, 120, 1500), Cloud(stamp, 150, <<-100, 0, 0>>, 80, 1500),
    Cloud(stamp, 150, <<0, 0, 100>>, 250, 400)>>

\* a cloud with too few points, an oblique one and a wall; the two walls of a
\* corridor and its ceiling; the four walls of a room
SegTemplates(stamp) ==
  { <<Cloud(stamp, 50, <<100, 0, 0>>, 300, 400), Cloud(stamp, 150, <<70, 70, 0>>, 300, 400),
      Cloud(stamp, 150, <<100, 0, 0>>, 200, 400)>>,
    CrossWalls(stamp),
    <<Cloud(stamp, 150, <<100, 0, 0>>, 160, 400), Cloud(stamp, 150, <<-100, 0, 0>>, 140, 400),
      Cloud(stamp, 150, <<0, 100, 0>>, 160, 400), Cloud(stamp, 150, <<0, -100, 0>>, 140, 400)>> }

\* the two walls of a corridor that runs along x, the way the robot advances: every
\* keyframe sees them at the same offsets
WallPair(stamp) ==
  <<Cloud(stamp, 150, <<0, 100, 0>>, 120, 1500), Cloud(stamp, 150, <<0, -100, 0>>, 80, 1500)>>

\* the two walls of a second corridor, 4 m to the side of the first
SideWallPair(stamp) ==
  <<Cloud(stamp, 150, <<0, 100, 0>>, 520, 1500), Cloud(stamp, 150, <<0, -100, 0>>, -320, 1500)>>

\* the corridors are seen from both keyframes, but the second one only from the
\* second keyframe
SegMessages ==
  UNION {{[stamp |-> stamp, pointclouds |-> pointclouds] :
            pointclouds \in SegTemplates(stamp)} : stamp \in AuxStamps}
    \cup {[stamp |-> stamp, pointclouds |-> CrossWalls(stamp)] : stamp \in KeyframeStamps}
    \cup {[stamp |-> stamp, pointclouds |-> WallPair(stamp)] : stamp \in KeyframeStamps}
    \cup {[stamp |-> stamp, pointclouds |-> SideWallPair(stamp)] :
            stamp \in KeyframeStamps \ AuxStamps}

Producers == {"cloud", "seg", "gps", "imu", "floor"}
Threads == Producers \cup {"opt", "pub", "dump", "save"}
Mutexes == {"main_thread_mutex", "keyframe_queue_mutex", "cloud_seg_mutex", "gps_queue_mutex",
            "imu_queue_mutex", "floor_coeffs_queue_mutex", "keyframes_snapshot_mutex",
            "trans_odom2map_mutex"}

NoTrace == [ticked |-> FALSE, keyframe_updated |-> FALSE, keyframe_grew |-> FALSE,
            rets |-> [d \in Drains |-> FALSE], ran |-> {},
            grew |-> [d \in Drains |-> FALSE],
            loop_detection |-> FALSE, optimize |-> FALSE, calls |-> <<>>,
            solved |-> <<0, NoMarginals>>]

\* a source delivers its messages in stamp order, and budget of them in all
MayReceive(source, stamp, budget) ==
  sent.aux < budget /\ sent.stamp[source] <= stamp

Received(source, stamp) ==
  sent' = [sent EXCEPT !.aux = @ + 1, !.stamp[source] = stamp]

\* the same for a segmented-clouds message, which the history keeps whole
ReceivedSeg(clouds_seg_msg) ==
  sent' = [sent EXCEPT !.aux = @ + 1, !.stamp["seg"] = clouds_seg_msg.stamp,
                       !.segs = @ \cup {clouds_seg_msg}]

\* the members as the constructor and onInit leave them
InitNodelet ==
  /\ kf = <<>> /\ keyframe_queue = <<>> /\ new_keyframes = <<>> /\ keyframes = <<>>
  /\ keyframe_hash = <<>>
  /\ base_frame_id = FALSE
  /\ gps_queue = <<>> /\ imu_queue = <<>> /\ floor_coeffs_queue = <<>>
  /\ clouds_seg_queue = <<>>
  /\ zero_utm = FALSE
  /\ graph = EmptyGraph
  /\ floor_plane_node = NULL /\ anchor_node = NULL
  /\ x_vert_planes = <<>> /\ y_vert_planes = <<>> /\ hort_planes = <<>>
  /\ x_corridors = <<>> /\ y_corridors = <<>> /\ rooms_vec = <<>>
  /\ trans_odom2map = 0
  /\ keyframes_snapshot = <<>>
  /\ graph_updated = FALSE
  /\ mutex = [m \in Mutexes |-> "free"]
  /\ pc = [t \in Threads |-> "idle"]
  /\ tick = NoTrace
  /\ snapshot = [t \in {"pub", "save"} |-> <<>>]
  /\ last = [thread |-> "none", op |-> "onInit", held |-> {}, reads |-> {}]

\* nothing has been received: the count of auxiliary messages, the last stamp
\* of each source, the segmented-cloud messages
NothingSent(sources) == [aux |-> 0, stamp |-> [p \in sources |-> 0], segs |-> {}]

Init ==
  /\ max_keyframes_per_update \in BatchSizes
  /\ InitNodelet
  /\ sent = NothingSent(Producers)

(***************************************************************************)
(* The handlers, each as one uninterrupted step.                           *)
(***************************************************************************)
Sequential == UNCHANGED <<max_keyframes_per_update, mutex, pc, snapshot, last>>

cloud_callback(stamp, update) ==
  /\ update => Len(kf) < MaxKeyframes /\ sent.stamp["cloud"] < stamp
  /\ Store(IF update
           THEN [This EXCEPT !.base_frame_id = TRUE,
                             !.kf = Append(@, KeyFrame(stamp, odom_of(stamp))),
                             !.keyframe_queue = Append(@, Len(kf) + 1)]
           ELSE [This EXCEPT !.base_frame_id = TRUE])
  /\ sent' = IF update THEN [sent EXCEPT !.stamp["cloud"] = stamp] ELSE sent
  /\ tick' = NoTrace
  /\ Sequential

cloud_seg_callback(clouds_seg_msg) ==
  /\ MayReceive("seg", clouds_seg_msg.stamp, MaxAux)
  /\ Store([This EXCEPT !.clouds_seg_queue = Append(@, clouds_seg_msg)])
  /\ ReceivedSeg(clouds_seg_msg)
  /\ tick' = NoTrace
  /\ Sequential

gps_callback(gps_msg) ==
  /\ MayReceive("gps", gps_msg.stamp, MaxAux)
  /\ Store([This EXCEPT !.gps_queue = Append(@, gps_msg)])
  /\ Received("gps", gps_msg.stamp)
  /\ tick' = NoTrace
  /\ Sequential

nmea_callback(stamp, status_A) ==
  IF status_A
  THEN gps_callback([stamp |-> stamp, alt_nan |-> TRUE])
  ELSE Store(This) /\ tick' = NoTrace /\ Sequential /\ UNCHANGED sent

navsat_callback(stamp) ==
  gps_callback([stamp |-> stamp, alt_nan |-> FALSE])

imu_callback(imu_msg) ==
  /\ enable_imu_orientation \/ enable_imu_acceleration
  /\ MayReceive("imu", imu_msg.stamp, MaxAux)
  /\ Store([This EXCEPT !.imu_queue = Append(@, imu_msg)])
  /\ Received("imu", imu_msg.stamp)
  /\ tick' = NoTrace
  /\ Sequential

floor_coeffs_callback(stamp, empty) ==
  IF empty
  THEN Store(This) /\ tick' = NoTrace /\ Sequential /\ UNCHANGED sent
  ELSE /\ MayReceive("floor", stamp, MaxAux)
       /\ Store([This EXCEPT !.floor_coeffs_queue = Append(@, [stamp |-> stamp])])
       /\ Received("floor", stamp)
       /\ tick' = NoTrace
       /\ Sequential

\* what the loop detector and the solver may answer in state n
LoopOutcomes(n) ==
  IF n.keyframes # <<>> /\ n.keyframe_queue # <<>> THEN BOOLEAN ELSE {FALSE}

\* <<iterations, marginals>>; the marginals are asked for only when planes exist
SolverOutcomes(n) ==
  IF /\ n.clouds_seg_queue = <<>>
     /\ n.x_vert_planes = <<>> /\ n.y_vert_planes = <<>> /\ n.hort_planes = <<>>
  THEN {<<0, NoMarginals>>, <<1, NoMarginals>>}
  ELSE {<<0, NoMarginals>>} \cup {<<1, block>> : block \in CovOutcomes}

optimization_timer_callback(order, loop, solved) ==
  LET commit(r) == Store(r.n) /\ tick' = r.trace
  IN /\ commit(optimization_timer(This, order, loop, solved[1], solved[2]))
     /\ Sequential
     /\ UNCHANGED sent

\* subscribers: map_points_pub.getNumSubscribers() is not zero
map_points_publish_timer_callback(subscribers) ==
  /\ Store(IF subscribers /\ graph_updated /\ keyframes_snapshot # <<>>
           THEN convert_plane_points_to_map(This) ELSE This)
  /\ tick' = NoTrace
  /\ Sequential
  /\ UNCHANGED sent

dump_service ==
  Store(This) /\ tick' = NoTrace /\ Sequential /\ UNCHANGED sent

save_map_service ==
  Store(This) /\ tick' = NoTrace /\ Sequential /\ UNCHANGED sent

Next ==
  \/ \E msg \in CloudMessages : cloud_callback(msg.stamp, msg.update)
  \/ \E clouds_seg_msg \in SegMessages : cloud_seg_callback(clouds_seg_msg)
  \/ \E stamp \in PoseStamps : gps_callback([stamp |-> stamp, alt_nan |-> FALSE])
  \/ \E msg \in NmeaSentences : nmea_callback(msg.stamp, msg.status_A)
  \/ \E stamp \in PoseStamps : navsat_callback(stamp)
  \/ \E stamp \in PoseStamps, tf \in BOOLEAN : imu_callback([stamp |-> stamp, tf |-> tf])
  \/ \E msg \in FloorMessages : floor_coeffs_callback(msg.stamp, msg.empty)
  \/ \E order \in DrainOrders, loop \in LoopOutcomes(This), solved \in SolverOutcomes(This) :
       optimization_timer_callback(order, loop, solved)
  \/ \E subscribers \in BOOLEAN : map_points_publish_timer_callback(subscribers)
  \/ dump_service
  \/ save_map_service

Spec == Init /\ [][Next]_vars

(***************************************************************************)
(* Properties of the fusion tick (specification Spec).                     *)
(***************************************************************************)
Landmarks == <<x_vert_planes, y_vert_planes, hort_planes, x_corridors, y_corridors, rooms_vec>>

\* the stamp of the latest committed keyframe
latest_committed == kf[Last(keyframes)].stamp

StampsAfter(q, stamp) ==
  LET After(msg) == msg.stamp > stamp IN SelectSeq(q, After)

\* the keyframe whose pose vertex is v
KeyframeOfNode(v) == CHOOSE k \in 1..Len(kf) : kf[k].node = v

\* the edges each auxiliary drain adds for a measurement
FactorKinds ==
  [floor |-> {"se3_plane_floor"}, gps |-> {"se3_prior_xy", "se3_prior_xyz"},
   imu |-> {"se3_prior_quat", "se3_prior_vec"}, seg |-> {"se3_plane", "se3_point_to_plane"}]

\* the stamps of the measurements waiting in each auxiliary queue
QueuedStamps ==
  [floor |-> {m.stamp : m \in Range(floor_coeffs_queue)},
   gps |-> {m.stamp : m \in Range(gps_queue)},
   imu |-> {m.stamp : m \in Range(imu_queue)},
   seg |-> UNION {{c.stamp : c \in Range(m.pointclouds)} : m \in Range(clouds_seg_queue)}]

NearestKeyframes(stamp) ==
  {k \in Range(keyframes) :
     \A j \in Range(keyframes) : Abs(kf[k].stamp - stamp) <= Abs(kf[j].stamp - stamp)}

\* C2: a tick all of whose drains return false is a no-op: loop detection and
\* optimize are not called, and the graph, the landmark collections, the
\* committed keyframes, keyframes_snapshot and graph_updated are left as they were
C2_NoOpTick ==
  [][(tick'.ticked /\ nothing_updated(tick'.keyframe_updated, tick'.rets))
       => /\ ~tick'.loop_detection /\ ~tick'.optimize
          /\ graph' = graph
          /\ Landmarks' = Landmarks
          /\ keyframes' = keyframes
          /\ keyframes_snapshot' = keyframes_snapshot
          /\ graph_updated' = graph_updated]_vars

\* C3 (as stated): when the keyframe drain of a tick returns true, none of the
\* four auxiliary drains runs in that tick
C3_AuxOnlyWhenKeyframesIdle ==
  (tick.ticked /\ tick.keyframe_updated) => tick.ran = {}

\* C3 (amended): every tick calls all four auxiliary drains, whatever the
\* keyframe drain returned
C3_AuxDrainsAlwaysRun ==
  tick.ticked => tick.ran = Drains

\* a tick whose keyframe drain returned true and in which an auxiliary drain
\* added a factor
C3_Witness ==
  tick.ticked /\ tick.keyframe_updated /\ \E d \in Drains : tick.rets[d] /\ tick.grew[d]

\* C4: after an auxiliary drain runs with committed keyframes on a queue in
\* stamp order, the queue holds exactly its items stamped after the latest
\* committed keyframe
C4_QueueRetention ==
  [][(tick'.ticked /\ keyframes # <<>>)
       => /\ (IsSorted(floor_coeffs_queue) /\ "floor" \in tick'.ran)
               => floor_coeffs_queue' = StampsAfter(floor_coeffs_queue, latest_committed)
          /\ (IsSorted(gps_queue) /\ "gps" \in tick'.ran)
               => gps_queue' = StampsAfter(gps_queue, latest_committed)
          /\ (IsSorted(imu_queue) /\ "imu" \in tick'.ran)
               => imu_queue' = StampsAfter(imu_queue, latest_committed)
          /\ (IsSorted(clouds_seg_queue) /\ "seg" \in tick'.ran)
               => clouds_seg_queue' = StampsAfter(clouds_seg_queue, latest_committed)]_vars

C6_ExactDidWorkFlag ==
  tick.ticked
    => /\ tick.keyframe_updated <=> tick.keyframe_grew
       /\ \A d \in Drains : tick.rets[d] <=> tick.grew[d]

\* the keyframes in arrival order: committed, then staged, then queued
ArrivalOrder == keyframes \o new_keyframes \o keyframe_queue

C7_Batch ==
  tick'.ticked
    => LET count == Min(Len(keyframe_queue), max_keyframes_per_update)
           batch == SubSeq(keyframe_queue, 1, count)
       IN /\ keyframe_queue' = Drop(keyframe_queue, count)
          /\ keyframes' \o new_keyframes' = keyframes \o new_keyframes \o batch
          /\ \A i \in 1..count :
               /\ kf[batch[i]].node = NULL
               /\ kf'[batch[i]].node >= num_vertices(graph)
               /\ kf'[batch[i]].node < num_vertices(graph')
               /\ graph'.vertices[kf'[batch[i]].node + 1] = "se3"
          /\ \A i, j \in 1..count : i # j => kf'[batch[i]].node # kf'[batch[j]].node

AllLandmarks ==
  [i \in 1..Len(x_vert_planes) |->
     [id |-> x_vert_planes[i].id, node |-> x_vert_planes[i].plane_node, kind |-> "plane"]]
  \o [i \in 1..Len(y_vert_planes) |->
     [id |-> y_vert_planes[i].id, node |-> y_vert_planes[i].plane_node, kind |-> "plane"]]
  \o [i \in 1..Len(hort_planes) |->
     [id |-> hort_planes[i].id, node |-> hort_planes[i].plane_node, kind |-> "plane"]]
  \o [i \in 1..Len(x_corridors) |->
     [id |-> x_corridors[i].id, node |-> x_corridors[i].node, kind |-> "corridor"]]
  \o [i \in 1..Len(y_corridors) |->
     [id |-> y_corridors[i].id, node |-> y_corridors[i].node, kind |-> "corridor"]]
  \o [i \in 1..Len(rooms_vec) |->
     [id |-> rooms_vec[i].id, node |-> rooms_vec[i].node, kind |-> "room"]]

\* C10: the ids of all plane, corridor and room landmarks are pairwise
\* distinct, and each is the number of vertices the graph had just before the
\* landmark's own vertex was added
C10_LandmarkIds ==
  /\ \A i, j \in 1..Len(AllLandmarks) : i # j => AllLandmarks[i].id # AllLandmarks[j].id
  /\ \A i \in 1..Len(AllLandmarks) :
       /\ AllLandmarks[i].id = AllLandmarks[i].node
       /\ AllLandmarks[i].id < num_vertices(graph)
       /\ graph.vertices[AllLandmarks[i].id + 1] = AllLandmarks[i].kind

\* planes of the three classes, a corridor and a room exist
C10_Witness ==
  /\ x_vert_planes # <<>> /\ y_vert_planes # <<>> /\ hort_planes # <<>>
  /\ x_corridors # <<>> /\ rooms_vec # <<>>

(***************************************************************************)
(* The same handlers as interleaved threads (specification SpecConc).  A   *)
(* step is what a thread does between two synchronisation points; a queue  *)
(* mutex is taken and released inside one step, main_thread_mutex is held  *)
(* across the steps of a tick.  last records, for the step just taken, the *)
(* mutexes its thread held while it ran and the shared state it read.      *)
(***************************************************************************)
ConcStamps == {st \in Stamps : st = 2}

HeldBy(thread) == {m \in Mutexes : mutex[m] = thread}

Step(thread, op, held, reads) ==
  last' = [thread |-> thread, op |-> op, held |-> held, reads |-> reads]

Goto(thread, label) == pc' = [pc EXCEPT ![thread] = label]

\* cloud_callback up to the base_frame_id assignment, which no mutex guards
cloud_callback_frame ==
  /\ pc["cloud"] = "idle"
  /\ Store([This EXCEPT !.base_frame_id = TRUE])
  /\ Goto("cloud", "queue")
  /\ Step("cloud", "cloud_callback", HeldBy("cloud"), {})
  /\ UNCHANGED <<max_keyframes_per_update, mutex, tick, snapshot, sent>>

\* the rest of cloud_callback, under keyframe_queue_mutex
cloud_callback_queue(stamp, update) ==
  /\ pc["cloud"] = "queue"
  /\ update => Len(kf) < ConcMaxKeyframes /\ sent.stamp["cloud"] < stamp
  /\ Store(IF update
           THEN [This EXCEPT !.kf = Append(@, KeyFrame(stamp, odom_of(stamp))),
                             !.keyframe_queue = Append(@, Len(kf) + 1)]
           ELSE This)
  /\ sent' = IF update THEN [sent EXCEPT !.stamp["cloud"] = stamp] ELSE sent
  /\ Goto("cloud", "idle")
  /\ Step("cloud", "cloud_callback", HeldBy("cloud") \cup {"keyframe_queue_mutex"}, {})
  /\ UNCHANGED <<max_keyframes_per_update, mutex, tick, snapshot>>

cloud_seg_callback_locked(clouds_seg_msg) ==
  /\ MayReceive("seg", clouds_seg_msg.stamp, ConcMaxAux)
  /\ Store([This EXCEPT !.clouds_seg_queue = Append(@, clouds_seg_msg)])
  /\ ReceivedSeg(clouds_seg_msg)
  /\ Step("seg", "cloud_seg_callback", HeldBy("seg") \cup {"cloud_seg_mutex"}, {})
  /\ UNCHANGED <<max_keyframes_per_update, mutex, pc, tick, snapshot>>

\* gps_callback, also as nmea_callback and navsat_callback call it
gps_callback_locked(gps_msg) ==
  /\ MayReceive("gps", gps_msg.stamp, ConcMaxAux)
  /\ Store([This EXCEPT !.gps_queue = Append(@, gps_msg)])
  /\ Received("gps", gps_msg.stamp)
  /\ Step("gps", "gps_callback", HeldBy("gps") \cup {"gps_queue_mutex"}, {})
  /\ UNCHANGED <<max_keyframes_per_update, mutex, pc, tick, snapshot>>

imu_callback_locked(imu_msg) ==
  /\ enable_imu_orientation \/ enable_imu_acceleration
  /\ MayReceive("imu", imu_msg.stamp, ConcMaxAux)
  /\ Store([This EXCEPT !.imu_queue = Append(@, imu_msg)])
  /\ Received("imu", imu_msg.stamp)
  /\ Step("imu", "imu_callback", HeldBy("imu") \cup {"imu_queue_mutex"}, {})
  /\ UNCHANGED <<max_keyframes_per_update, mutex, pc, tick, snapshot>>

floor_coeffs_callback_locked(stamp) ==
  /\ MayReceive("floor", stamp, ConcMaxAux)
  /\ Store([This EXCEPT !.floor_coeffs_queue = Append(@, [stamp |-> stamp])])
  /\ Received("floor", stamp)
  /\ Step("floor", "floor_coeffs_callback", HeldBy("floor") \cup {"floor_coeffs_queue_mutex"}, {})
  /\ UNCHANGED <<max_keyframes_per_update, mutex, pc, tick, snapshot>>

\* optimization_timer_callback: the lock_guard on main_thread_mutex
optimization_timer_lock ==
  /\ pc["opt"] = "idle"
  /\ mutex["main_thread_mutex"] = "free"
  /\ mutex' = [mutex EXCEPT !["main_thread_mutex"] = "opt"]
  /\ Goto("opt", "keyframes")
  /\ tick' = NoTrace
  /\ Store(This)
  /\ Step("opt", "optimization_timer_callback", {"main_thread_mutex"}, {})
  /\ UNCHANGED <<max_keyframes_per_update, snapshot, sent>>

optimization_timer_keyframes ==
  /\ pc["opt"] = "keyframes"
  /\ LET k == flush_keyframe_queue(This)
     IN /\ Store(k.n)
        /\ tick' = [tick EXCEPT !.keyframe_updated = k.ret,
                                !.keyframe_grew = k.n.graph # graph]
  /\ Goto("opt", "aux")
  /\ Step("opt", "flush_keyframe_queue",
          HeldBy("opt") \cup {"keyframe_queue_mutex", "trans_odom2map_mutex"}, {})
  /\ UNCHANGED <<max_keyframes_per_update, mutex, snapshot, sent>>

\* the condition at the head of the tick, and the return when it holds
optimization_timer_aux(order) ==
  /\ pc["opt"] = "aux"
  /\ LET commit(a) ==
           LET early == nothing_updated(tick.keyframe_updated, a.rets)
           IN /\ Store(a.n)
              /\ tick' = [tick EXCEPT !.ticked = TRUE, !.rets = a.rets, !.ran = a.ran,
                                      !.grew = a.grew, !.loop_detection = ~early,
                                      !.optimize = ~early, !.calls = a.n.log]
              /\ Goto("opt", IF early THEN "idle" ELSE "rest")
              /\ mutex' = IF early THEN [mutex EXCEPT !["main_thread_mutex"] = "free"]
                          ELSE mutex
     IN commit(aux_drains(This, tick.keyframe_updated, order))
  /\ Step("opt", "flush_aux_queues",
          HeldBy("opt") \cup {"floor_coeffs_queue_mutex", "gps_queue_mutex",
                              "imu_queue_mutex", "cloud_seg_mutex"}, {})
  /\ UNCHANGED <<max_keyframes_per_update, snapshot, sent>>

optimization_timer_rest(loop, solved) ==
  /\ pc["opt"] = "rest"
  /\ Store(tick_rest(This, loop, solved[1], solved[2]))
  /\ mutex' = [mutex EXCEPT !["main_thread_mutex"] = "free"]
  /\ Goto("opt", "idle")
  /\ Step("opt", "optimization_timer_callback",
          HeldBy("opt") \cup {"trans_odom2map_mutex", "keyframes_snapshot_mutex"}, {})
  /\ UNCHANGED <<max_keyframes_per_update, tick, snapshot, sent>>

\* map_points_publish_timer_callback: the test of its first line
map_points_publish_check(subscribers) ==
  /\ pc["pub"] = "idle"
  /\ Goto("pub", IF subscribers /\ graph_updated THEN "copy" ELSE "idle")
  /\ Store(This)
  /\ Step("pub", "map_points_publish_timer_callback", HeldBy("pub"), {"graph_updated"})
  /\ UNCHANGED <<max_keyframes_per_update, mutex, tick, snapshot, sent>>

\* the copy of keyframes_snapshot and the map cloud made of it
map_points_publish_copy ==
  /\ pc["pub"] = "copy"
  /\ snapshot' = [snapshot EXCEPT !["pub"] = keyframes_snapshot]
  /\ Goto("pub", IF keyframes_snapshot = <<>> THEN "idle" ELSE "convert")
  /\ Store(This)
  /\ Step("pub", "map_points_publish_timer_callback",
          HeldBy("pub") \cup {"keyframes_snapshot_mutex"}, {"keyframes_snapshot"})
  /\ UNCHANGED <<max_keyframes_per_update, mutex, tick, sent>>

map_points_publish_convert ==
  /\ pc["pub"] = "convert"
  /\ Store(convert_plane_points_to_map(This))
  /\ snapshot' = [snapshot EXCEPT !["pub"] = <<>>]
  /\ Goto("pub", "idle")
  /\ Step("pub", "convert_plane_points_to_map", HeldBy("pub"),
          {"x_vert_planes", "y_vert_planes", "hort_planes"})
  /\ UNCHANGED <<max_keyframes_per_update, mutex, tick, sent>>

dump_service_lock ==
  /\ pc["dump"] = "idle"
  /\ mutex["main_thread_mutex"] = "free"
  /\ mutex' = [mutex EXCEPT !["main_thread_mutex"] = "dump"]
  /\ Goto("dump", "write")
  /\ Store(This)
  /\ Step("dump", "dump_service", {"main_thread_mutex"}, {})
  /\ UNCHANGED <<max_keyframes_per_update, tick, snapshot, sent>>

dump_service_write ==
  /\ pc["dump"] = "write"
  /\ mutex' = [mutex EXCEPT !["main_thread_mutex"] = "free"]
  /\ Goto("dump", "idle")
  /\ Store(This)
  /\ Step("dump", "dump_service", HeldBy("dump"), {"graph", "keyframes", "zero_utm"})
  /\ UNCHANGED <<max_keyframes_per_update, tick, snapshot, sent>>

save_map_service_copy ==
  /\ pc["save"] = "idle"
  /\ snapshot' = [snapshot EXCEPT !["save"] = keyframes_snapshot]
  /\ Goto("save", IF keyframes_snapshot = <<>> THEN "idle" ELSE "utm")
  /\ Store(This)
  /\ Step("save", "save_map_service",
          HeldBy("save") \cup {"keyframes_snapshot_mutex"}, {"keyframes_snapshot"})
  /\ UNCHANGED <<max_keyframes_per_update, mutex, tick, sent>>

\* the reads of zero_utm after the map cloud is made
save_map_service_utm ==
  /\ pc["save"] = "utm"
  /\ snapshot' = [snapshot EXCEPT !["save"] = <<>>]
  /\ Goto("save", "idle")
  /\ Store(This)
  /\ Step("save", "save_map_service", HeldBy("save"), {"zero_utm"})
  /\ UNCHANGED <<max_keyframes_per_update, mutex, tick, sent>>

NextConc ==
  \/ cloud_callback_frame
  \/ \E stamp \in ConcStamps, update \in BOOLEAN : cloud_callback_queue(stamp, update)
  \/ \E clouds_seg_msg \in {m \in SegMessages : m.stamp \in ConcStamps} :
       cloud_seg_callback_locked(clouds_seg_msg)
  \/ \E stamp \in ConcStamps : gps_callback_locked([stamp |-> stamp, alt_nan |-> FALSE])
  \/ \E stamp \in ConcStamps, tf \in BOOLEAN :
       imu_callback_locked([stamp |-> stamp, tf |-> tf])
  \/ \E stamp \in ConcStamps : floor_coeffs_callback_locked(stamp)
  \/ optimization_timer_lock
  \/ optimization_timer_keyframes
  \/ \E order \in DrainOrders : optimization_timer_aux(order)
  \/ \E solved \in SolverOutcomes(This) : optimization_timer_rest(FALSE, solved)
  \/ \E subscribers \in BOOLEAN : map_points_publish_check(subscribers)
  \/ map_points_publish_copy
  \/ map_points_publish_convert
  \/ dump_service_lock
  \/ dump_service_write
  \/ save_map_service_copy
  \/ save_map_service_utm

SpecConc == Init /\ [][NextConc]_vars

(***************************************************************************)
(* Properties of the threads (specification SpecConc).                     *)
(***************************************************************************)
QueueOf ==
  [cloud |-> <<kf, keyframe_queue>>, seg |-> clouds_seg_queue, gps |-> gps_queue,
   imu |-> imu_queue, floor |-> floor_coeffs_queue]

QueueMutex ==
  [cloud |-> "keyframe_queue_mutex", seg |-> "cloud_seg_mutex", gps |-> "gps_queue_mutex",
   imu |-> "imu_queue_mutex", floor |-> "floor_coeffs_queue_mutex"]

\* the nodelet's state that the tick reads or writes, a producer's own queue aside
SharedBut(producer) ==
  <<[p \in Producers \ {producer} |-> QueueOf[p]], new_keyframes, keyframes,
    keyframe_hash, base_frame_id, zero_utm, graph, floor_plane_node, anchor_node,
    Landmarks, trans_odom2map, keyframes_snapshot, graph_updated>>

\* C1: the landmark collections and the graph are written only by a thread that
\* holds main_thread_mutex
C1_WritesUnderMainLock ==
  [][(Landmarks' # Landmarks \/ graph' # graph)
       => "main_thread_mutex" \in last'.held]_vars

\* C8: a step of dump_service or save_map_service that reads the graph, the
\* keyframes or the UTM origin runs with main_thread_mutex held, so none of them
\* runs while a tick is between its lock and its unlock
C8_ServicesUnderMainLock ==
  /\ [][(/\ last'.op \in {"dump_service", "save_map_service"}
         /\ last'.reads \cap {"graph", "keyframes", "zero_utm"} # {})
          => "main_thread_mutex" \in last'.held]_vars
  /\ [](pc["opt"] # "idle" => pc["dump"] # "write" /\ pc["save"] # "utm")

\* C9: a step of a producer callback leaves everything it shares with the tick but
\* its own queue as it was, and changes that queue with the queue's mutex held
C9_ProducersWriteOwnQueue ==
  [][\A p \in Producers :
       last'.thread = p
         => /\ (SharedBut(p))' = SharedBut(p)
            /\ ((QueueOf')[p] # QueueOf[p] => QueueMutex[p] \in last'.held)]_vars

(***************************************************************************)
(* PlaneMapper (plane_mapper.cpp).  It works on the caller's graph,        *)
(* keyframe and plane collections, which it receives by reference.  A      *)
(* point cloud is a sequence of groups [x, count]: count points at the     *)
(* coordinate x (cm) along the pose's axis.                                *)
(***************************************************************************)
min_plane_points == 100
neighbour_min_dist == 5000      \* 0.5, held against a squared norm: m^2 in cm^2
neighbour_min_points == 100

RECURSIVE cloud_size(_)
cloud_size(cloud) ==
  IF cloud = <<>> THEN 0 ELSE cloud[1].count + cloud_size(Tail(cloud))

\* pose * point, for every point of the cloud
transform_cloud(keyframe_est, cloud) ==
  [j \in 1..Len(cloud) |-> [cloud[j] EXCEPT !.x = @ + keyframe_est]]

\* the inner loop of check_point_neighbours: some point of cloud_2 lies within
\* the gate of the point
has_neighbour(point, cloud_2) ==
  \E j \in 1..Len(cloud_2) :
     (point.x - cloud_2[j].x) * (point.x - cloud_2[j].x) < neighbour_min_dist

\* the outer loop, a group of equal points at a time: the count passes the
\* bound inside a group exactly when it is over the bound after it
RECURSIVE check_point_neighbours_loop(_, _, _, _)
check_point_neighbours_loop(cloud_1, cloud_2, i, point_count) ==
  IF i > Len(cloud_1) THEN FALSE
  ELSE LET counted == IF has_neighbour(cloud_1[i], cloud_2)
                      THEN point_count + cloud_1[i].count ELSE point_count
       IN IF counted > neighbour_min_points THEN TRUE
          ELSE check_point_neighbours_loop(cloud_1, cloud_2, i + 1, counted)

check_point_neighbours(cloud_1, cloud_2) ==
  check_point_neighbours_loop(cloud_1, cloud_2, 1, 0)

\* plane_type as add_planes_to_graph sets it, NULL when no branch is taken
plane_type_of(det_plane_map_frame) ==
  LET x == Abs(det_plane_map_frame.n[1])
      y == Abs(det_plane_map_frame.n[2])
      z == Abs(det_plane_map_frame.n[3])
  IN IF x > y /\ x > z THEN X_VERT_PLANE
     ELSE IF y > x /\ y > z THEN Y_VERT_PLANE
     ELSE IF z > x /\ z > y THEN HORT_PLANE
     ELSE NULL

\* the for loop of a vertical case: <<vert_min_maha_dist^2 * 4, first, second>>,
\* second counted from 0 as in the code
RECURSIVE PlaneMapper_vert_loop(_, _, _, _, _)
PlaneMapper_vert_loop(planes, keyframe, det_plane, i, best) ==
  IF i > Len(planes) THEN best
  ELSE LET local_plane == plane_in_body_frame(keyframe, planes[i].plane)
           maha == maha_sq4(ominus_sq(local_plane, det_plane), planes[i].covariance)
       IN PlaneMapper_vert_loop(planes, keyframe, det_plane, i + 1,
            IF maha < best[1] THEN <<maha, planes[i].id, i - 1>> ELSE best)

\* the for loop of the horizontal case: the distance it finds is stored in
\* vert_min_maha_dist, so hort_min_maha_dist, which it tests, stays as it was
RECURSIVE PlaneMapper_hort_loop(_, _, _, _, _)
PlaneMapper_hort_loop(planes, keyframe, det_plane, i, best) ==
  IF i > Len(planes) THEN best
  ELSE LET local_plane == plane_in_body_frame(keyframe, planes[i].plane)
           maha == maha_sq4(ominus_sq(local_plane, det_plane), planes[i].covariance)
       IN PlaneMapper_hort_loop(planes, keyframe, det_plane, i + 1,
            IF maha < best[1] THEN <<best[1], planes[i].id, i - 1>> ELSE best)

\* the tail of a vertical case: the neighbour test is made only under the
\* threshold, and nothing is done at or over it
PlaneMapper_vert_gate(planes, keyframe, cloud_seg_body, best) ==
  IF /\ best[1] < 4 * plane_dist_threshold * plane_dist_threshold
     /\ planes[best[3] + 1].cloud_seg_map # <<>>
     /\ ~check_point_neighbours(planes[best[3] + 1].cloud_seg_map,
                                transform_cloud(keyframe.est, cloud_seg_body))
  THEN <<NULL, best[3]>>
  ELSE <<best[2], best[3]>>

\* std::pair<int, int> data_association, value-initialised to (0, 0)
PlaneMapper_associate_plane(n, plane_type, keyframe, det_plane, cloud_seg_body) ==
  LET start == <<4 * min_dist_init * min_dist_init, 0, 0>>
      vert(planes) ==
        PlaneMapper_vert_gate(planes, keyframe, cloud_seg_body,
          PlaneMapper_vert_loop(planes, keyframe, det_plane, 1, start))
      hort(best) ==
        IF best[1] > 4 * plane_dist_threshold * plane_dist_threshold
        THEN <<NULL, best[3]>> ELSE <<best[2], best[3]>>
  IN IF plane_type = X_VERT_PLANE THEN vert(n.x_vert_planes)
     ELSE IF plane_type = Y_VERT_PLANE THEN vert(n.y_vert_planes)
     ELSE IF plane_type = HORT_PLANE
     THEN hort(PlaneMapper_hort_loop(n.hort_planes, keyframe, det_plane, 1, start))
     ELSE <<0, 0>>

\* a variant that numbers landmarks by the vertices now in the graph
PlaneMapper_new_plane_id_size(g) == num_vertices(g)

\* id of a plane landmark created now: graph_slam->num_vertices_local(), read
\* before add_plane_node
PlaneMapper_new_plane_id(g) == num_vertices_local(g)

\* keyframe->node->estimate(), looked up by the node
node_estimate(n, node) ==
  n.kf[CHOOSE k \in DOMAIN n.kf : n.kf[k].node = node].est

RECURSIVE cloud_seg_map_of(_, _, _)
cloud_seg_map_of(n, plane, k) ==
  IF k > Len(plane.keyframe_node_vec) THEN <<>>
  ELSE transform_cloud(node_estimate(n, plane.keyframe_node_vec[k]),
                       plane.cloud_seg_body_vec[k])
         \o cloud_seg_map_of(n, plane, k + 1)

PlaneMapper_map_plane_points(n, planes) ==
  [i \in 1..Len(planes) |->
     [planes[i] EXCEPT !.cloud_seg_map = cloud_seg_map_of(n, planes[i], 1)]]

PlaneMapper_convert_plane_points_to_map(n) ==
  [n EXCEPT !.x_vert_planes = PlaneMapper_map_plane_points(n, @),
            !.y_vert_planes = PlaneMapper_map_plane_points(n, @),
            !.hort_planes = PlaneMapper_map_plane_points(n, @)]

\* cloud_seg_map = nullptr: no cloud at all, which is not the empty cloud
NullCloud == <<[x |-> NULL, count |-> NULL]>>

PlaneMapper_new_plane(id, keyframe, det_plane_map_frame, plane_node) ==
  [id |-> id, plane |-> det_plane_map_frame,
   cloud_seg_body |-> keyframe.cloud_seg_body,
   cloud_seg_body_vec |-> <<keyframe.cloud_seg_body>>,
   keyframe_node_vec |-> <<keyframe.node>>, keyframe_node |-> keyframe.node,
   plane_node |-> plane_node, cloud_seg_map |-> NullCloud, covariance |-> 1]

\* a variant that records the cloud and not the pose it was seen from
PlaneMapper_matched_cloud_only(planes, second, keyframe) ==
  [planes EXCEPT ![second + 1].cloud_seg_body_vec = Append(@, keyframe.cloud_seg_body)]

\* the matched branch of a case: the landmark gets the cloud and the keyframe node
PlaneMapper_matched(planes, second, keyframe) ==
  [planes EXCEPT ![second + 1].cloud_seg_body_vec = Append(@, keyframe.cloud_seg_body),
                 ![second + 1].keyframe_node_vec = Append(@, keyframe.node)]

\* factor_planes: the state after it and what it did.  plane_node is declared
\* without a value and the default branch of the switch assigns none, so the
\* edge added after the switch then ends at whatever the pointer holds:
\* garbage is that value (a vertex, or NULL for no vertex at all).
PlaneMapper_factor_planes(n, k, plane_type, det_plane_map_frame, det_plane_body_frame, garbage) ==
  LET keyframe == n.kf[k]
      factor(data_association) ==
        LET planes == PlanesOf(n, plane_type)
            is_default == plane_type \notin {X_VERT_PLANE, Y_VERT_PLANE, HORT_PLANE}
            is_new == ~is_default /\ (planes = <<>> \/ data_association[1] = NULL)
            first == IF is_new THEN PlaneMapper_new_plane_id(n.graph)
                     ELSE data_association[1]
            plane_node == IF is_default THEN garbage
                          ELSE IF is_new THEN num_vertices_local(n.graph)
                          ELSE planes[data_association[2] + 1].plane_node
            id == IF is_new THEN first ELSE planes[data_association[2] + 1].id
            after(old) ==
              IF is_new
              THEN Append(old, PlaneMapper_new_plane(first, keyframe,
                                                     det_plane_map_frame, plane_node))
              ELSE PlaneMapper_matched(old, data_association[2], keyframe)
            n1 == IF is_default THEN n
                  ELSE [n EXCEPT !.graph = IF is_new THEN add_node(@, "plane") ELSE @,
                                 !.x_vert_planes =
                                    IF plane_type = X_VERT_PLANE THEN after(@) ELSE @,
                                 !.y_vert_planes =
                                    IF plane_type = Y_VERT_PLANE THEN after(@) ELSE @,
                                 !.hort_planes =
                                    IF plane_type = HORT_PLANE THEN after(@) ELSE @,
                                 !.kf[k].x_plane_ids =
                                    IF plane_type = X_VERT_PLANE THEN Append(@, id) ELSE @,
                                 !.kf[k].y_plane_ids =
                                    IF plane_type = Y_VERT_PLANE THEN Append(@, id) ELSE @,
                                 !.kf[k].hort_plane_ids =
                                    IF plane_type = HORT_PLANE THEN Append(@, id) ELSE @]
            n2 == [n1 EXCEPT !.graph = add_edge(@, IF use_point_to_plane
                                                   THEN "se3_point_to_plane"
                                                   ELSE "se3_plane",
                                                keyframe.node, plane_node,
                                                det_plane_body_frame)]
        IN [n |-> PlaneMapper_convert_plane_points_to_map(n2),
            plane_type |-> plane_type, data_association |-> data_association,
            first |-> first, created |-> is_new, plane_node |-> plane_node]
  IN factor(PlaneMapper_associate_plane(n, plane_type, keyframe, det_plane_body_frame,
                                        keyframe.cloud_seg_body))

sort_planes(n, k, plane_type, det_plane_map_frame, det_plane_body_frame, garbage) ==
  PlaneMapper_factor_planes(n, k, plane_type, det_plane_map_frame, det_plane_body_frame,
                            garbage)

add_planes_to_graph(n, k, det_plane_body_frame, garbage) ==
  LET classify(det_plane_map_frame) ==
        sort_planes(n, k, plane_type_of(det_plane_map_frame), det_plane_map_frame,
                    det_plane_body_frame, garbage)
  IN classify(plane_in_map_frame(n.kf[k], det_plane_body_frame))

\* one pass of the loop of map_extracted_planes over a segmented cloud: a
\* cloud under min_plane_points is skipped
map_extracted_plane(n, k, cloud_seg_body, garbage) ==
  IF cloud_size(cloud_seg_body.points) < min_plane_points
  THEN [n |-> n, plane_type |-> NULL, data_association |-> <<0, 0>>, first |-> NULL,
        created |-> FALSE, plane_node |-> NULL, skipped |-> TRUE]
  ELSE [skipped |-> FALSE]
         @@ add_planes_to_graph([n EXCEPT !.kf[k].cloud_seg_body = cloud_seg_body.points],
                                k, [n |-> cloud_seg_body.n, d |-> cloud_seg_body.d],
                                garbage)

\* the process died on the wild pointer
Crash == NULL - 1

\* the loop of map_extracted_planes: the state after it and what each pass did
RECURSIVE map_extracted_planes_loop(_, _, _, _, _, _)
map_extracted_planes_loop(n, k, extracted_cloud_vec, i, garbage, results) ==
  IF i > Len(extracted_cloud_vec) THEN [n |-> n, results |-> results, crashed |-> FALSE]
  ELSE LET next(r) ==
             IF ~r.skipped /\ r.plane_type = NULL /\ garbage = Crash
             THEN [n |-> n, results |-> results, crashed |-> TRUE]
             ELSE map_extracted_planes_loop(r.n, k, extracted_cloud_vec, i + 1, garbage,
                                            Append(results, [r EXCEPT !.n = 0]))
       IN next(map_extracted_plane(n, k, extracted_cloud_vec[i], garbage))

map_extracted_planes(n, k, extracted_cloud_vec, garbage) ==
  map_extracted_planes_loop(n, k, extracted_cloud_vec, 1, garbage, <<>>)

(***************************************************************************)
(* PlaneMapper driven by its caller: keyframes enter the graph, segmented  *)
(* clouds are mapped against a keyframe, plane vertices are removed.       *)
(***************************************************************************)
MapperMaxKeyframes == 2
MapperMaxCalls == 3
MapperMaxRemovals == 1

MapperKeyFrame(node, est) ==
  [node |-> node, est |-> est, cloud_seg_body |-> <<>>,
   x_plane_ids |-> <<>>, y_plane_ids |-> <<>>, hort_plane_ids |-> <<>>]

SegCloud(points, normal, d) == [points |-> points, n |-> normal, d |-> d]

\* a wall at x = 2 m; the same wall seen 5 cm off; a plane 10 cm off it whose
\* points lie 7 m aside; a wall 3 m further; a ceiling; a wall along y; a
\* plane at 45 degrees between x and y; a cloud of 50 points
Detections ==
  { SegCloud(<<[x |-> 200, count |-> 150]>>, <<100, 0, 0>>, -200),
    SegCloud(<<[x |-> 195, count |-> 150]>>, <<100, 0, 0>>, -195),
    SegCloud(<<[x |-> 900, count |-> 150]>>, <<100, 0, 0>>, -190),
    SegCloud(<<[x |-> 500, count |-> 150]>>, <<100, 0, 0>>, -500),
    SegCloud(<<[x |-> 0, count |-> 150]>>, <<0, 0, 100>>, -250),
    SegCloud(<<[x |-> 0, count |-> 150]>>, <<0, 100, 0>>, -300),
    SegCloud(<<[x |-> 100, count |-> 150]>>, <<70, 70, 0>>, -300),
    SegCloud(<<[x |-> 200, count |-> 50]>>, <<100, 0, 0>>, -200) }

ExtractedCloudVecs ==
  {<<c>> : c \in Detections}
    \cup {<<SegCloud(<<[x |-> 0, count |-> 150]>>, <<0, 0, 100>>, -250),
            SegCloud(<<[x |-> 0, count |-> 150]>>, <<0, 0, 100>>, -250)>>}

KeyframeEstimates == {100}

\* what the unset plane_node may hold: any vertex, no vertex, or a value the
\* process dies on
Garbage(g) == {Crash, NULL} \cup (0 .. num_vertices_local(g) - 1)

InitMapper ==
  /\ max_keyframes_per_update = Min(1, 2)
  /\ kf = <<MapperKeyFrame(0, 0)>>
  /\ keyframe_queue = <<>> /\ new_keyframes = <<>> /\ keyframes = <<1>>
  /\ keyframe_hash = <<>>
  /\ base_frame_id = TRUE
  /\ gps_queue = <<>> /\ imu_queue = <<>> /\ floor_coeffs_queue = <<>>
  /\ clouds_seg_queue = <<>>
  /\ zero_utm = FALSE
  /\ graph = add_node(EmptyGraph, "se3")
  /\ floor_plane_node = NULL /\ anchor_node = NULL
  /\ x_vert_planes = <<>> /\ y_vert_planes = <<>> /\ hort_planes = <<>>
  /\ x_corridors = <<>> /\ y_corridors = <<>> /\ rooms_vec = <<>>
  /\ trans_odom2map = 0
  /\ keyframes_snapshot = <<>>
  /\ graph_updated = FALSE
  /\ mutex = [m \in Mutexes |-> "free"]
  /\ pc = [t \in Threads |-> "idle"]
  /\ tick = NoTrace
  /\ snapshot = [t \in {"pub", "save"} |-> <<>>]
  /\ sent = [ids |-> <<>>, removed |-> 0, calls |-> 0]
  /\ last = [op |-> "onInit", k |-> 0, extracted_cloud_vec |-> <<>>, results |-> <<>>]

MapperFrame ==
  UNCHANGED <<max_keyframes_per_update, keyframe_queue, new_keyframes, keyframe_hash,
              base_frame_id, gps_queue, imu_queue, floor_coeffs_queue, clouds_seg_queue,
              zero_utm, floor_plane_node, anchor_node, x_corridors, y_corridors,
              rooms_vec, trans_odom2map, keyframes_snapshot, graph_updated, mutex, pc,
              tick, snapshot>>

\* the ids of the landmarks the passes created, in order, each with the
\* number of removals before it
RECURSIVE created_ids(_, _, _)
created_ids(results, i, removed) ==
  IF i > Len(results) THEN <<>>
  ELSE (IF results[i].created THEN <<[id |-> results[i].first, removed |-> removed]>>
        ELSE <<>>) \o created_ids(results, i + 1, removed)

\* a keyframe enters the graph (add_se3_node)
mapper_keyframe(est) ==
  /\ last.op # "crash"
  /\ Len(kf) < MapperMaxKeyframes
  /\ kf' = Append(kf, MapperKeyFrame(num_vertices_local(graph), est))
  /\ keyframes' = Append(keyframes, Len(kf) + 1)
  /\ graph' = add_node(graph, "se3")
  /\ last' = [op |-> "add_se3_node", k |-> 0, extracted_cloud_vec |-> <<>>,
              results |-> <<>>]
  /\ UNCHANGED <<x_vert_planes, y_vert_planes, hort_planes, sent>>
  /\ MapperFrame

map_extracted_planes_call(k, extracted_cloud_vec, garbage) ==
  LET commit(r) ==
        IF r.crashed
        THEN /\ last' = [op |-> "crash", k |-> k,
                          extracted_cloud_vec |-> extracted_cloud_vec,
                          results |-> r.results]
             /\ UNCHANGED <<kf, graph, x_vert_planes, y_vert_planes, hort_planes>>
             /\ sent' = [sent EXCEPT !.calls = @ + 1]
        ELSE /\ kf' = r.n.kf
             /\ graph' = r.n.graph
             /\ x_vert_planes' = r.n.x_vert_planes
             /\ y_vert_planes' = r.n.y_vert_planes
             /\ hort_planes' = r.n.hort_planes
             /\ last' = [op |-> "map_extracted_planes", k |-> k,
                          extracted_cloud_vec |-> extracted_cloud_vec,
                          results |-> r.results]
             /\ sent' = [sent EXCEPT !.calls = @ + 1,
                                     !.ids = @ \o created_ids(r.results, 1, sent.removed)]
  IN /\ last.op # "crash"
     /\ sent.calls < MapperMaxCalls
     /\ commit(map_extracted_planes(This, k, extracted_cloud_vec, garbage))
     /\ UNCHANGED keyframes
     /\ MapperFrame

\* the caller drops the landmark i of a class and removes its vertex
remove_plane(plane_type, i) ==
  LET erase(planes) == [j \in 1..(Len(planes) - 1) |->
                          IF j < i THEN planes[j] ELSE planes[j + 1]]
  IN /\ last.op # "crash"
     /\ sent.removed < MapperMaxRemovals
     /\ i \in DOMAIN PlanesOf(This, plane_type)
     /\ graph' = remove_plane_node(graph, PlanesOf(This, plane_type)[i].plane_node)
     /\ x_vert_planes' = IF plane_type = X_VERT_PLANE THEN erase(x_vert_planes)
                         ELSE x_vert_planes
     /\ y_vert_planes' = IF plane_type = Y_VERT_PLANE THEN erase(y_vert_planes)
                         ELSE y_vert_planes
     /\ hort_planes' = IF plane_type = HORT_PLANE THEN erase(hort_planes)
                       ELSE hort_planes
     /\ sent' = [sent EXCEPT !.removed = @ + 1]
     /\ last' = [op |-> "remove_plane_node", k |-> 0, extracted_cloud_vec |-> <<>>,
                 results |-> <<>>]
     /\ UNCHANGED <<kf, keyframes>>
     /\ MapperFrame

NextMapper ==
  \/ \E est \in KeyframeEstimates : mapper_keyframe(est)
  \/ \E k \in DOMAIN kf, extracted_cloud_vec \in ExtractedCloudVecs,
        garbage \in Garbage(graph) :
       map_extracted_planes_call(k, extracted_cloud_vec, garbage)
  \/ \E plane_type \in {X_VERT_PLANE, Y_VERT_PLANE, HORT_PLANE}, i \in 1..MapperMaxCalls :
       remove_plane(plane_type, i)

SpecMapper == InitMapper /\ [][NextMapper]_vars

OnePass ==
  /\ last'.op = "map_extracted_planes"
  /\ Len(last'.extracted_cloud_vec) = 1
  /\ ~last'.results[1].skipped

PassPlane == [n |-> last'.extracted_cloud_vec[1].n, d |-> last'.extracted_cloud_vec[1].d]

PassType == last'.results[1].plane_type

\* 4 * the squared association distance to landmark i
DistanceTo(planes, i, keyframe, det_plane) ==
  maha_sq4(ominus_sq(plane_in_body_frame(keyframe, planes[i].plane), det_plane),
           planes[i].covariance)

MinDistance(planes, keyframe, det_plane) ==
  CHOOSE m \in {DistanceTo(planes, i, keyframe, det_plane) : i \in DOMAIN planes} :
    \A i \in DOMAIN planes : m <= DistanceTo(planes, i, keyframe, det_plane)

\* the lowest index among the nearest landmarks, counted from 0
FirstNearest(planes, keyframe, det_plane) ==
  (CHOOSE i \in DOMAIN planes :
     /\ DistanceTo(planes, i, keyframe, det_plane) = MinDistance(planes, keyframe, det_plane)
     /\ \A j \in DOMAIN planes :
          DistanceTo(planes, j, keyframe, det_plane) = MinDistance(planes, keyframe, det_plane)
            => i <= j) - 1

Threshold4 == 4 * plane_dist_threshold * plane_dist_threshold

\* the collection of a class after the step
PlanesAfter(plane_type) ==
  IF plane_type = X_VERT_PLANE THEN x_vert_planes'
  ELSE IF plane_type = Y_VERT_PLANE THEN y_vert_planes'
  ELSE hort_planes'

\* C12: a vertical detection (x or y) that meets a non-empty collection of its
\* class and whose smallest association distance is over plane_dist_threshold
\* creates a new landmark and a new vertex.
C12_OverThresholdCreates ==
  [][(/\ OnePass
      /\ PassType \in {X_VERT_PLANE, Y_VERT_PLANE}
      /\ PlanesOf(This, PassType) # <<>>
      /\ MinDistance(PlanesOf(This, PassType), kf[last'.k], PassPlane) > Threshold4)
     => /\ last'.results[1].created
        /\ Len(PlanesAfter(PassType)) = Len(PlanesOf(This, PassType)) + 1
        /\ num_vertices_local(graph') = num_vertices_local(graph) + 1]_vars

\* C13: a horizontal detection whose smallest association distance is under
\* plane_dist_threshold is matched: no landmark is created and the number of
\* horizontal landmarks stays what it was, so that after a repeated detection
\* there is one landmark.
C13_HorizontalMatched ==
  [][(/\ OnePass
      /\ PassType = HORT_PLANE
      /\ hort_planes # <<>>
      /\ MinDistance(hort_planes, kf[last'.k], PassPlane) < Threshold4)
     => /\ ~last'.results[1].created
        /\ Len(hort_planes') = Len(hort_planes)]_vars

\* C14: for each of the three classes associate_plane selects the landmark at
\* the smallest distance, the lowest index among equals, whatever was
\* associated before.
C14_SelectsFirstNearest ==
  [][(/\ OnePass
      /\ PassType \in {X_VERT_PLANE, Y_VERT_PLANE, HORT_PLANE}
      /\ PlanesOf(This, PassType) # <<>>)
     => last'.results[1].data_association[2]
          = FirstNearest(PlanesOf(This, PassType), kf[last'.k], PassPlane)]_vars

\* C15: every plane that add_planes_to_graph classifies falls in exactly one
\* of the three classes, ties between the normal's coefficients included.
C15_ExactlyOneClass ==
  \A i \in DOMAIN last.results :
    ~last.results[i].skipped
      => last.results[i].plane_type \in {X_VERT_PLANE, Y_VERT_PLANE, HORT_PLANE}

\* the keyframes' lists of plane ids
PlaneIds == [k \in DOMAIN kf |-> <<kf[k].x_plane_ids, kf[k].y_plane_ids, kf[k].hort_plane_ids>>]

\* C16: a call that takes the default branch (plane_type -1) creates no
\* landmark and adds nothing to the graph: the collections, the keyframes' id
\* lists and the graph's vertices and edges are what they were, and the call
\* comes back.
C16_DefaultBranchAddsNothing ==
  [][(/\ last'.op \in {"map_extracted_planes", "crash"}
      /\ Len(last'.extracted_cloud_vec) = 1
      /\ plane_type_of(plane_in_map_frame(kf[last'.k], PassPlane)) = NULL
      /\ cloud_size(last'.extracted_cloud_vec[1].points) >= min_plane_points)
     => /\ last'.op # "crash"
        /\ graph' = graph
        /\ <<x_vert_planes, y_vert_planes, hort_planes>>'
             = <<x_vert_planes, y_vert_planes, hort_planes>>
        /\ PlaneIds' = PlaneIds]_vars

(***************************************************************************)
(* The plane utilities called on their own: check_point_neighbours,        *)
(* correct_plane_d, and sort_corridors followed by refine_corridors as at  *)
(* their call site, each on inputs from a small set.  last holds the call  *)
(* just made, what it was given and what it gave back.                     *)
(***************************************************************************)
Group(x, count) == [x |-> x, count |-> count]

\* clouds of 99, 100 and 101 points, alone or with a point 3 m away, and two
\* groups of 50
Clouds1 ==
  {<<Group(0, count)>> : count \in {99, 100, 101}}
    \cup {<<Group(0, count), Group(300, 1)>> : count \in {99, 100}}
    \cup {<<Group(0, 50), Group(10, 50)>>, <<>>}

\* a point at 0, 40, 60 or 80 cm (squared: 0, 0.16, 0.36, 0.64 m^2)
Clouds2 ==
  {<<Group(x, 1)>> : x \in {0, 40, 60, 80}} \cup {<<>>, <<Group(300, 1), Group(0, 1)>>}

UtilPlanes ==
  {[n |-> normal, d |-> d] :
     normal \in {<<100, 0, 0>>, <<-100, 0, 0>>, <<0, 100, 0>>, <<0, -100, 0>>},
     d \in {-100, 120}}

Candidate(plane_id, normal, d, length) ==
  [plane |-> [n |-> normal, d |-> d], keyframe_node |-> 0,
   plane_local |-> [n |-> normal, d |-> d], plane_length |-> length,
   keyframe_trans |-> <<0, 0, 0>>, plane_id |-> plane_id]

\* walls along x: at x = 1 m facing +x; the plane (1, 0, 0, 1.2); walls facing
\* -x at x = -1.2, -1.3, -1.5, -2 and -0.5 m; the first two again, longer
CandidatePool ==
  { Candidate(1, <<100, 0, 0>>, -100, 1500),
    Candidate(2, <<100, 0, 0>>, 120, 1500),
    Candidate(3, <<-100, 0, 0>>, -120, 1500),
    Candidate(4, <<-100, 0, 0>>, -130, 1500),
    Candidate(5, <<-100, 0, 0>>, -150, 1500),
    Candidate(6, <<-100, 0, 0>>, -200, 1500),
    Candidate(7, <<-100, 0, 0>>, -50, 1500),
    Candidate(8, <<-100, 0, 0>>, -120, 1520),
    Candidate(9, <<-100, 0, 0>>, -130, 1540) }

\* lists of two or three candidates, each plane once
CandidateLists ==
  {<<a, b>> : a, b \in CandidatePool}
    \cup {<<a, b, c>> : a \in {Candidate(1, <<100, 0, 0>>, -100, 1500),
                               Candidate(3, <<-100, 0, 0>>, -120, 1500)},
                        b, c \in CandidatePool}

DistinctIds(cands) ==
  \A i, j \in DOMAIN cands : i # j => cands[i].plane_id # cands[j].plane_id

InitUtils ==
  /\ max_keyframes_per_update = Min(1, 2)
  /\ kf = <<>> /\ keyframe_queue = <<>> /\ new_keyframes = <<>> /\ keyframes = <<>>
  /\ keyframe_hash = <<>>
  /\ base_frame_id = FALSE
  /\ gps_queue = <<>> /\ imu_queue = <<>> /\ floor_coeffs_queue = <<>>
  /\ clouds_seg_queue = <<>>
  /\ zero_utm = FALSE
  /\ graph = EmptyGraph
  /\ floor_plane_node = NULL /\ anchor_node = NULL
  /\ x_vert_planes = <<>> /\ y_vert_planes = <<>> /\ hort_planes = <<>>
  /\ x_corridors = <<>> /\ y_corridors = <<>> /\ rooms_vec = <<>>
  /\ trans_odom2map = 0
  /\ keyframes_snapshot = <<>>
  /\ graph_updated = FALSE
  /\ mutex = [m \in Mutexes |-> "free"]
  /\ pc = [t \in Threads |-> "idle"]
  /\ tick = NoTrace
  /\ snapshot = [t \in {"pub", "save"} |-> <<>>]
  /\ sent = [aux |-> 0, stamp |-> [p \in Producers |-> 0], segs |-> {}]
  /\ last = [op |-> "none", in |-> <<>>, out |-> <<>>]

UtilsFrame ==
  UNCHANGED <<max_keyframes_per_update, kf, keyframe_queue, new_keyframes, keyframes,
              keyframe_hash, base_frame_id, gps_queue, imu_queue, floor_coeffs_queue,
              clouds_seg_queue, zero_utm, graph, floor_plane_node, anchor_node,
              x_vert_planes, y_vert_planes, hort_planes, x_corridors, y_corridors,
              rooms_vec, trans_odom2map, keyframes_snapshot, graph_updated, mutex, pc,
              tick, snapshot, sent>>

check_point_neighbours_call(cloud_1, cloud_2) ==
  /\ last' = [op |-> "check_point_neighbours", in |-> <<cloud_1, cloud_2>>,
              out |-> check_point_neighbours(cloud_1, cloud_2)]
  /\ UtilsFrame

correct_plane_d_call(plane_type, plane1, plane2) ==
  /\ last' = [op |-> "correct_plane_d", in |-> <<plane_type, plane1, plane2>>,
              out |-> correct_plane_d(plane_type, plane1, plane2)]
  /\ UtilsFrame

\* the same two planes are handed to correct_plane_d once more, as the pair
\* loops do with the candidate they keep
correct_plane_d_again ==
  /\ last.op \in {"correct_plane_d", "correct_plane_d_again"}
  /\ last' = [op |-> "correct_plane_d_again", in |-> <<last.in[1], last.out[1], last.out[2]>>,
              out |-> correct_plane_d(last.in[1], last.out[1], last.out[2])]
  /\ UtilsFrame

sort_corridors_call(plane_type, corridor_candidates) ==
  /\ DistinctIds(corridor_candidates)
  /\ last' = [op |-> "sort_corridors", in |-> <<plane_type, corridor_candidates>>,
              out |-> sort_corridors(plane_type, corridor_candidates)]
  /\ UtilsFrame

\* refine_corridors on what sort_corridors has just returned
refine_corridors_call ==
  /\ last.op = "sort_corridors"
  /\ last' = [op |-> "refine_corridors", in |-> last.out,
              out |-> refine_corridors(last.out)]
  /\ UtilsFrame

\* a pair of opposing walls width apart, as sort_rooms returns it
RoomPair(plane_type, plane_id, width) ==
  LET normal == IF plane_type = X_VERT_PLANE THEN <<100, 0, 0>> ELSE <<0, 100, 0>>
      opposite == IF plane_type = X_VERT_PLANE THEN <<-100, 0, 0>> ELSE <<0, -100, 0>>
  IN [plane1 |-> Candidate(plane_id, normal, width - 100, 400),
      plane2 |-> Candidate(plane_id + 1, opposite, 100, 400),
      width |-> width, length_diff |-> 0]

RoomVec(plane_type, first_id, widths) ==
  [i \in DOMAIN widths |-> RoomPair(plane_type, first_id + 2 * i, widths[i])]

\* widths of the pairs of a cycle
XRoomWidths == {<<300>>, <<400>>, <<300, 400>>, <<400, 300>>, <<300, 300>>}
YRoomWidths == {<<310>>, <<290, 310>>, <<310, 500>>, <<500, 310>>, <<550>>, <<700>>,
                <<700, 650>>}

refine_rooms_call(x_room_vec, y_room_vec) ==
  /\ last' = [op |-> "refine_rooms", in |-> <<x_room_vec, y_room_vec>>,
              out |-> refine_rooms(x_room_vec, y_room_vec)]
  /\ UtilsFrame

\* walls facing +x and -x whose offsets are 1 m or 1.5 m in magnitude
WidthPlanes ==
  {[n |-> normal, d |-> d] :
     normal \in {<<100, 0, 0>>, <<-100, 0, 0>>}, d \in {-100, 100, -150}}

\* what the unset vector vec of PlaneUtils::width_between_planes may hold
WidthGarbage == {<<0, 0, 0>>, <<20000, 0, 0>>, <<-7700, 1300, 0>>}

\* PlaneUtils::width_between_planes: vec is declared without a value and is
\* assigned in neither branch when the offsets have equal magnitude
PlaneUtils_width_between_planes(v1, v2, garbage) ==
  LET scaled(v, k) == <<k * v.n[1], k * v.n[2], k * v.n[3]>>
      minus(a, b) == <<a[1] - b[1], a[2] - b[2], a[3] - b[3]>>
      vec == IF Abs(v1.d) > Abs(v2.d)
             THEN minus(scaled(v1, Abs(v1.d)), scaled(v2, Abs(v2.d)))
             ELSE IF Abs(v2.d) > Abs(v1.d)
             THEN minus(scaled(v2, Abs(v2.d)), scaled(v1, Abs(v1.d)))
             ELSE garbage
  IN Abs(vec[1] + vec[2]) \div 100

width_between_planes_call(v1, v2) ==
  /\ last' = [op |-> "width_between_planes", in |-> <<v1, v2>>,
              out |-> width_between_planes(v1, v2)]
  /\ UtilsFrame

PlaneUtils_width_between_planes_call(v1, v2, garbage) ==
  /\ last' = [op |-> "PlaneUtils::width_between_planes", in |-> <<v1, v2>>,
              out |-> PlaneUtils_width_between_planes(v1, v2, garbage)]
  /\ UtilsFrame

NextUtils ==
  \/ \E x_widths \in XRoomWidths, y_widths \in YRoomWidths :
       refine_rooms_call(RoomVec(X_VERT_PLANE, 20, x_widths),
                         RoomVec(Y_VERT_PLANE, 40, y_widths))
  \/ \E cloud_1 \in Clouds1, cloud_2 \in Clouds2 :
       check_point_neighbours_call(cloud_1, cloud_2)
  \/ \E plane_type \in {X_VERT_PLANE, Y_VERT_PLANE}, plane1, plane2 \in UtilPlanes :
       correct_plane_d_call(plane_type, plane1, plane2)
  \/ correct_plane_d_again
  \/ \E corridor_candidates \in CandidateLists :
       sort_corridors_call(X_VERT_PLANE, corridor_candidates)
  \/ refine_corridors_call
  \/ \E v1, v2 \in WidthPlanes : width_between_planes_call(v1, v2)
  \/ \E v1, v2 \in WidthPlanes, garbage \in WidthGarbage :
       PlaneUtils_width_between_planes_call(v1, v2, garbage)

SpecUtils == InitUtils /\ [][NextUtils]_vars

\* the points of cloud_1 that have a point of cloud_2 at a squared distance
\* under the gate
RECURSIVE NearPoints(_, _, _)
NearPoints(cloud_1, cloud_2, gate) ==
  IF cloud_1 = <<>> THEN 0
  ELSE (IF \E j \in DOMAIN cloud_2 :
             (cloud_1[1].x - cloud_2[j].x) * (cloud_1[1].x - cloud_2[j].x) < gate
        THEN cloud_1[1].count ELSE 0)
       + NearPoints(Tail(cloud_1), cloud_2, gate)

\* C17: check_point_neighbours returns true exactly when at least 100 points
\* of cloud_1 each have a point of cloud_2 at a squared distance under 0.25:
\* 100 such points are enough, 99 are not.
C17_HundredPointsUnderQuarter ==
  last.op = "check_point_neighbours"
    => (last.out <=> NearPoints(last.in[1], last.in[2], 2500) >= 100)

\* C18: the sign correction of correct_plane_d is idempotent: applied to its
\* own result it changes nothing.
C18_CorrectionIdempotent ==
  [][last'.op = "correct_plane_d_again" => last'.out = last.out]_vars

\* the plane of a candidate after the sign correction
Corrected(plane_type, cand) == correct_plane_d_one(plane_type, cand.plane)

\* the conditions on a pair, with the bounds on the width included
Qualifies(plane_type, ci, cj) ==
  LET p1 == Corrected(plane_type, ci)
      p2 == Corrected(plane_type, cj)
      width == width_between_planes(p1, p2)
  IN /\ Dot(p1.n, p2.n) < 0
     /\ width >= corridor_min_width /\ width <= corridor_max_width
     /\ Abs(ci.plane_length - cj.plane_length) < corridor_plane_length_diff_threshold

Included(pairs, ci, cj) ==
  \E p \in DOMAIN pairs :
     pairs[p].plane1.plane_id = ci.plane_id /\ pairs[p].plane2.plane_id = cj.plane_id

\* C19: sort_corridors includes a pair of candidates exactly when, after the
\* sign correction, their normals oppose, their width lies between
\* corridor_min_width and corridor_max_width, bounds included, and their
\* lengths differ by less than the threshold; the planes (1, 0, 0, -1.0) and
\* (1, 0, 0, 1.2) of equal length, 2.2 m apart, are included.
C19_PairIncludedIffQualifies ==
  last.op = "sort_corridors"
    => /\ \A i, j \in DOMAIN last.in[2] :
            i < j => (Included(last.out, last.in[2][i], last.in[2][j])
                        <=> Qualifies(last.in[1], last.in[2][i], last.in[2][j]))
       /\ (/\ Len(last.in[2]) = 2
           /\ last.in[2][1].plane = [n |-> <<100, 0, 0>>, d |-> -100]
           /\ last.in[2][2].plane = [n |-> <<100, 0, 0>>, d |-> 120]
           /\ last.in[2][1].plane_length = last.in[2][2].plane_length)
          => Len(last.out) = 1

\* C20: refine_corridors returns the two planes of the pair with the smallest
\* length difference, the first of the list among equals, and returns nothing
\* exactly when the list of qualifying pairs is empty.
C20_FirstSmallestLengthDiff ==
  last.op = "refine_corridors"
    => /\ (last.out = <<>>) <=> (last.in = <<>>)
       /\ last.in # <<>>
            => \E i \in DOMAIN last.in :
                  /\ last.out = <<last.in[i].plane1, last.in[i].plane2>>
                  /\ \A j \in DOMAIN last.in :
                        /\ last.in[i].length_diff <= last.in[j].length_diff
                        /\ j < i => last.in[i].length_diff < last.in[j].length_diff

\* two pairs of the same length difference were refined, and the first was kept
C20_Witness ==
  /\ last.op = "refine_corridors"
  /\ Len(last.in) >= 2
  /\ last.in[1].length_diff = last.in[2].length_diff
  /\ last.out = <<last.in[1].plane1, last.in[1].plane2>>

\* the width differences of the combinations of two lists of pairs
WidthDiff(x_room_vec, y_room_vec, i, j) == Abs(x_room_vec[i].width - y_room_vec[j].width)

\* the combination (i, j) is the first, in the order of the loops, among
\* those of the smallest width difference
FirstSmallest(x_room_vec, y_room_vec, i, j) ==
  \A a \in DOMAIN x_room_vec, b \in DOMAIN y_room_vec :
     /\ WidthDiff(x_room_vec, y_room_vec, i, j) <= WidthDiff(x_room_vec, y_room_vec, a, b)
     /\ (a < i \/ (a = i /\ b < j))
          => WidthDiff(x_room_vec, y_room_vec, i, j) < WidthDiff(x_room_vec, y_room_vec, a, b)

ReturnsCombination(x_room_vec, y_room_vec, out) ==
  \E i \in DOMAIN x_room_vec, j \in DOMAIN y_room_vec :
     /\ FirstSmallest(x_room_vec, y_room_vec, i, j)
     /\ out = <<<<x_room_vec[i].plane1, x_room_vec[i].plane2>>,
                <<y_room_vec[j].plane1, y_room_vec[j].plane2>>>>

\* C21 as stated: given at least one X-pair and at least one Y-pair,
\* refine_rooms returns the combination of the smallest absolute difference
\* of widths, the first one in iteration order among equals.
C21_AlwaysReturnsSquarest ==
  (last.op = "refine_rooms" /\ last.in[1] # <<>> /\ last.in[2] # <<>>)
    => ReturnsCombination(last.in[1], last.in[2], last.out)

\* C21 amended: refine_rooms returns that combination when its difference of
\* widths is under 2.5 m, and two empty lists when no combination is under
\* 2.5 m.
C21_ReturnsSquarestUnderGate ==
  (last.op = "refine_rooms" /\ last.in[1] # <<>> /\ last.in[2] # <<>>)
    => IF \E i \in DOMAIN last.in[1], j \in DOMAIN last.in[2] :
            WidthDiff(last.in[1], last.in[2], i, j) < refine_rooms_init
       THEN ReturnsCombination(last.in[1], last.in[2], last.out)
       ELSE last.out = <<<<>>, <<>>>>

\* X widths 3.0 and 4.0, Y widths 3.1 and 5.0: the 3.0 and the 3.1 pair come back
C21_Witness ==
  /\ last.op = "refine_rooms"
  /\ [i \in DOMAIN last.in[1] |-> last.in[1][i].width] = <<300, 400>>
  /\ [j \in DOMAIN last.in[2] |-> last.in[2][j].width] = <<310, 500>>
  /\ last.out = <<<<last.in[1][1].plane1, last.in[1][1].plane2>>,
                  <<last.in[2][1].plane1, last.in[2][1].plane2>>>>

(***************************************************************************)
(* Properties of corridors and rooms (specification Spec).                 *)
(***************************************************************************)
\* every segmented-clouds message received so far carries the two walls of the
\* one corridor
WallPairOnly ==
  sent.segs # {} /\ \A m \in sent.segs : m.pointclouds = WallPair(m.stamp)

\* a tick has gone through such a message stamped as a keyframe, and none waits
WallPairFactored ==
  /\ clouds_seg_queue = <<>>
  /\ \E m \in sent.segs : m.stamp \in DOMAIN keyframe_hash

SamePlaneIds(before, after) ==
  \A i \in DOMAIN before :
    /\ i \in DOMAIN after
    /\ after[i].plane1_id = before[i].plane1_id
    /\ after[i].plane2_id = before[i].plane2_id

CorridorAxis(plane_type) == IF plane_type = X_VERT_PLANE THEN 1 ELSE 2

AxisDistance(call, i) ==
  Abs(call.pose[CorridorAxis(call.plane_type)]
        - call.landmarks[i].pose[CorridorAxis(call.plane_type)])

\* the corridors of the class that lie within corridor_dist_threshold of the
\* candidate
WithinThreshold(call) ==
  {i \in DOMAIN call.landmarks : AxisDistance(call, i) <= corridor_dist_threshold}

\* the first of the nearest corridors
NearestCorridor(call) ==
  CHOOSE i \in DOMAIN call.landmarks :
    /\ \A j \in DOMAIN call.landmarks : AxisDistance(call, i) <= AxisDistance(call, j)
    /\ \A j \in 1..i - 1 : AxisDistance(call, j) > AxisDistance(call, i)

VerticesAdded(call) == {i \in DOMAIN call.added : call.added[i].vertex}

CorridorCalls(trace) ==
  {i \in DOMAIN trace.calls : trace.calls[i].fn = "factor_corridors"}

CreatesOrReuses(call) ==
  IF WithinThreshold(call) = {}
  THEN /\ call.is_new
       /\ Len(call.landmarks_after) = Len(call.landmarks) + 1
       /\ SubSeq(call.landmarks_after, 1, Len(call.landmarks)) = call.landmarks
       /\ Cardinality(VerticesAdded(call)) = 1
       /\ \A i \in VerticesAdded(call) :
            /\ call.added[i].kind = "corridor"
            /\ call.added[i].v1 = call.node
            /\ call.landmarks_after[Len(call.landmarks_after)].node = call.node
  ELSE /\ ~call.is_new
       /\ call.landmarks_after = call.landmarks
       /\ VerticesAdded(call) = {}
       /\ call.node = call.landmarks[NearestCorridor(call)].node

\* C23: a call of factor_corridors creates a corridor landmark and its vertex
\* exactly when no corridor of the class lies within corridor_dist_threshold of
\* the candidate along the axis of the class; otherwise it reuses the nearest
\* corridor and the collection does not grow.
C23_NewIffNoneWithinThreshold ==
  [][\A i \in CorridorCalls(tick') : CreatesOrReuses(tick'.calls[i])]_vars

\* a tick has made a second corridor beside one too far to reuse
C23_Witness ==
  \E i \in CorridorCalls(tick) :
    /\ tick.calls[i].landmarks # <<>>
    /\ tick.calls[i].is_new

(***************************************************************************)
(* Properties of the plane covariances (specification Spec).               *)
(***************************************************************************)
PlaneLandmarks(x, y, h) == x \o y \o h

\* the tick just taken optimised for some iterations and got the marginals
MarginalsRecovered(trace) ==
  trace.ticked /\ trace.solved[1] > 0 /\ trace.solved[2] # NoMarginals

\* C24: after a tick whose optimisation ran and whose marginals were recovered,
\* every plane landmark whose block failed the Cholesky factorisation holds the
\* identity covariance and every other holds its block; no plane landmark ever
\* holds a covariance that is not positive definite, so associate_plane reads none.
C24_NonPositiveDefiniteBlocksGetIdentity ==
  [][LET planes == PlaneLandmarks(x_vert_planes', y_vert_planes', hort_planes')
     IN /\ MarginalsRecovered(tick')
             => \A i \in DOMAIN planes :
                  planes[i].covariance =
                    IF BlockOf(tick'.solved[2], planes[i].plane_node) = 0 THEN 1
                    ELSE BlockOf(tick'.solved[2], planes[i].plane_node)
        /\ \A i \in DOMAIN planes : planes[i].covariance > 0]_vars

\* a tick has recovered a failing block for one plane and a good one for another
C24_Witness ==
  LET planes == PlaneLandmarks(x_vert_planes, y_vert_planes, hort_planes)
  IN /\ MarginalsRecovered(tick)
     /\ \E i, j \in DOMAIN planes :
          /\ BlockOf(tick.solved[2], planes[i].plane_node) = 0
          /\ planes[i].covariance = 1
          /\ BlockOf(tick.solved[2], planes[j].plane_node) = 4
          /\ planes[j].covariance = 4

\* the tick just taken optimised for some iterations, asked for the marginals of
\* its plane landmarks and was refused them
MarginalsRefused(trace) ==
  /\ trace.ticked /\ trace.solved[1] > 0 /\ trace.solved[2] = NoMarginals
  /\ PlaneLandmarks(x_vert_planes, y_vert_planes, hort_planes) # <<>>

\* C25: when compute_landmark_marginals returns false, every plane landmark holds
\* the identity covariance after compute_plane_cov.
C25_IdentityWhenMarginalsRefused ==
  [][MarginalsRefused(tick)'
       => \A i \in DOMAIN PlaneLandmarks(x_vert_planes, y_vert_planes, hort_planes)' :
            PlaneLandmarks(x_vert_planes, y_vert_planes, hort_planes)'[i].covariance = 1]_vars

SameCovariances(before, after) ==
  \A i \in DOMAIN before : i \in DOMAIN after /\ after[i].covariance = before[i].covariance

\* the tick just taken got past its first test and its optimisation did not iterate
OptimizeFailed(trace) == trace.ticked /\ trace.optimize /\ trace.solved[1] <= 0

\* C26: a tick whose optimize returns no iteration leaves the covariances of the
\* plane landmarks as they were, merges the staged keyframes, and publishes the
\* snapshot and the odom-to-map transform all the same; and every tick that has
\* work calls optimize, whatever the ticks before it returned.
C26_FailedOptimizeNotFatal ==
  [][/\ OptimizeFailed(tick')
          => /\ SameCovariances(x_vert_planes, x_vert_planes')
             /\ SameCovariances(y_vert_planes, y_vert_planes')
             /\ SameCovariances(hort_planes, hort_planes')
             /\ new_keyframes' = <<>>
             /\ \E m \in 0..Len(keyframe_queue) :
                  keyframes' = keyframes \o new_keyframes \o SubSeq(keyframe_queue, 1, m)
             /\ keyframes_snapshot' =
                  [i \in 1..Len(keyframes') |-> KeyFrameSnapshot(This', keyframes'[i])]
             /\ trans_odom2map' = kf'[Last(keyframes')].est - kf'[Last(keyframes')].odom
             /\ graph_updated'
     /\ (tick'.ticked /\ ~nothing_updated(tick'.keyframe_updated, tick'.rets))
          => tick'.optimize]_vars

\* a tick whose optimize did not iterate has committed the second keyframe, while
\* a plane landmark holds the covariance an earlier tick recovered
C26_Witness ==
  /\ OptimizeFailed(tick)
  /\ tick.keyframe_updated
  /\ Len(keyframes) = 2 /\ Len(keyframes_snapshot) = 2
  /\ \E i \in DOMAIN x_vert_planes : x_vert_planes[i].covariance = 4

(***************************************************************************)
(* The snapshot of the keyframes between the tick that swaps it and the    *)
(* two callbacks that copy it (specification SpecSnapshot).  The tick is   *)
(* taken in three steps around the swap, a copy entry by entry, as the     *)
(* vector assignment makes it; keyframes_snapshot_mutex is held from the   *)
(* lock to the unlock of the code.  Here sent also keeps the snapshots the *)
(* ticks have swapped in, and last is the read or the publication just     *)
(* made.                                                                   *)
(***************************************************************************)
\* what optimize may add to the estimate of every committed keyframe
Corrections == {0, 1}

optimize_estimates(n, correction) ==
  [n EXCEPT !.kf = [k \in DOMAIN n.kf |->
                      IF \E i \in DOMAIN n.keyframes : n.keyframes[i] = k
                      THEN [n.kf[k] EXCEPT !.est = @ + correction]
                      ELSE n.kf[k]]]

\* a variant of the lock that does not wait
MayLockUnguarded(m) == TRUE

\* mutex.lock() returns once no thread holds the mutex
MayLock(m) == mutex[m] = "free"

Readers == {"pub", "save"}

InitSnapshot ==
  /\ max_keyframes_per_update \in BatchSizes
  /\ kf = <<>> /\ keyframe_queue = <<>> /\ new_keyframes = <<>> /\ keyframes = <<>>
  /\ keyframe_hash = <<>>
  /\ base_frame_id = FALSE
  /\ gps_queue = <<>> /\ imu_queue = <<>> /\ floor_coeffs_queue = <<>>
  /\ clouds_seg_queue = <<>>
  /\ zero_utm = FALSE
  /\ graph = EmptyGraph
  /\ floor_plane_node = NULL /\ anchor_node = NULL
  /\ x_vert_planes = <<>> /\ y_vert_planes = <<>> /\ hort_planes = <<>>
  /\ x_corridors = <<>> /\ y_corridors = <<>> /\ rooms_vec = <<>>
  /\ trans_odom2map = 0
  /\ keyframes_snapshot = <<>>
  /\ graph_updated = FALSE
  /\ mutex = [m \in Mutexes |-> "free"]
  /\ pc = [t \in Threads |-> "idle"]
  /\ tick = NoTrace
  /\ snapshot = [t \in Readers |-> <<>>]
  /\ sent = [aux |-> 0, stamp |-> [p \in Producers |-> 0], segs |-> {}, swaps |-> {}]
  /\ last = [thread |-> "none", op |-> "onInit", snapshot |-> <<>>]

\* the tick from its lock to the optimisation: the drains, the first test, the
\* loop edges, the merge of the staged keyframes, optimize and the odom-to-map
\* transform
optimization_timer_optimize(order, loop, correction) ==
  /\ pc["opt"] = "idle"
  /\ MayLock("main_thread_mutex")
  /\ LET rest(k, a) ==
           LET early == nothing_updated(k.ret, a.rets)
               n1 == optimize_estimates(merge_new_keyframes(add_loop_edges(a.n, loop)),
                                        correction)
               keyframe == n1.kf[Last(n1.keyframes)]
           IN /\ Store(IF early THEN a.n
                       ELSE [n1 EXCEPT !.trans_odom2map = keyframe.est - keyframe.odom])
              /\ Goto("opt", IF early THEN "idle" ELSE "swap")
              /\ mutex' = IF early THEN mutex
                          ELSE [mutex EXCEPT !["main_thread_mutex"] = "opt"]
         aux(k) == rest(k, aux_drains(k.n, k.ret, order))
     IN aux(flush_keyframe_queue(This))
  /\ tick' = NoTrace
  /\ UNCHANGED <<max_keyframes_per_update, snapshot, sent, last>>

\* the snapshot made of the committed keyframes, and the swap under the mutex
optimization_timer_swap ==
  /\ pc["opt"] = "swap"
  /\ MayLock("keyframes_snapshot_mutex")
  /\ LET swapped == [i \in 1..Len(keyframes) |-> KeyFrameSnapshot(This, keyframes[i])]
     IN /\ Store([This EXCEPT !.keyframes_snapshot = swapped])
        /\ sent' = [sent EXCEPT !.swaps = @ \cup {swapped}]
  /\ Goto("opt", "updated")
  /\ tick' = NoTrace
  /\ UNCHANGED <<max_keyframes_per_update, mutex, snapshot, last>>

\* graph_updated = true, and the end of the tick
optimization_timer_updated ==
  /\ pc["opt"] = "updated"
  /\ Store([This EXCEPT !.graph_updated = TRUE])
  /\ mutex' = [mutex EXCEPT !["main_thread_mutex"] = "free"]
  /\ Goto("opt", "idle")
  /\ tick' = NoTrace
  /\ UNCHANGED <<max_keyframes_per_update, snapshot, sent, last>>

\* map_points_publish_timer_callback: the test of its first line
map_points_publish_test(subscribers) ==
  /\ pc["pub"] = "idle"
  /\ Goto("pub", IF subscribers /\ graph_updated THEN "lock" ELSE "idle")
  /\ Store(This)
  /\ tick' = NoTrace
  /\ UNCHANGED <<max_keyframes_per_update, mutex, snapshot, sent, last>>

save_map_service_call ==
  /\ pc["save"] = "idle"
  /\ Goto("save", "lock")
  /\ Store(This)
  /\ tick' = NoTrace
  /\ UNCHANGED <<max_keyframes_per_update, mutex, snapshot, sent, last>>

\* keyframes_snapshot_mutex.lock() of a reader, its local vector still empty
snapshot_lock(reader) ==
  /\ pc[reader] = "lock"
  /\ MayLock("keyframes_snapshot_mutex")
  /\ mutex' = [mutex EXCEPT !["keyframes_snapshot_mutex"] = reader]
  /\ snapshot' = [snapshot EXCEPT ![reader] = <<>>]
  /\ Goto(reader, "copy")
  /\ Store(This)
  /\ tick' = NoTrace
  /\ UNCHANGED <<max_keyframes_per_update, sent, last>>

\* snapshot = keyframes_snapshot: one entry, or the end of the copy and the unlock
snapshot_copy(reader) ==
  /\ pc[reader] = "copy"
  /\ IF Len(snapshot[reader]) < Len(keyframes_snapshot)
     THEN /\ snapshot' = [snapshot EXCEPT ![reader] =
                            Append(@, keyframes_snapshot[Len(snapshot[reader]) + 1])]
          /\ UNCHANGED <<mutex, pc, last>>
     ELSE /\ mutex' = [mutex EXCEPT !["keyframes_snapshot_mutex"] = "free"]
          /\ Goto(reader, "generate")
          /\ last' = [thread |-> reader, op |-> "read", snapshot |-> snapshot[reader]]
          /\ UNCHANGED snapshot
  /\ Store(This)
  /\ tick' = NoTrace
  /\ UNCHANGED <<max_keyframes_per_update, sent>>

\* map_cloud_generator->generate(snapshot, ...) answers no cloud for an empty
\* snapshot, and the callback returns; else the map is published, or saved
map_cloud_generate(reader) ==
  /\ pc[reader] = "generate"
  /\ last' = [thread |-> reader,
              op |-> IF snapshot[reader] = <<>> THEN "return" ELSE "publish",
              snapshot |-> snapshot[reader]]
  /\ snapshot' = [snapshot EXCEPT ![reader] = <<>>]
  /\ Goto(reader, "idle")
  /\ Store(This)
  /\ tick' = NoTrace
  /\ UNCHANGED <<max_keyframes_per_update, mutex, sent>>

\* cloud_callback leaves last, which has other fields here, as it is
NextSnapshot ==
  \/ \E msg \in CloudMessages : cloud_callback(msg.stamp, msg.update)
  \/ \E order \in DrainOrders, loop \in LoopOutcomes(This), correction \in Corrections :
       optimization_timer_optimize(order, loop, correction)
  \/ optimization_timer_swap
  \/ optimization_timer_updated
  \/ \E subscribers \in BOOLEAN : map_points_publish_test(subscribers)
  \/ save_map_service_call
  \/ \E reader \in Readers : snapshot_lock(reader)
  \/ \E reader \in Readers : snapshot_copy(reader)
  \/ \E reader \in Readers : map_cloud_generate(reader)

SpecSnapshot == InitSnapshot /\ [][NextSnapshot]_vars

CallsOf(trace, fn, plane_type) ==
  {i \in DOMAIN trace.calls :
     trace.calls[i].fn = fn /\ trace.calls[i].plane_type = plane_type}

\* the corridors of each class and the rooms that the tick has created or
\* matched are at most cap
StructuresCapped(trace, cap) ==
  /\ Cardinality(CallsOf(trace, "factor_corridors", X_VERT_PLANE)) <= cap
  /\ Cardinality(CallsOf(trace, "factor_corridors", Y_VERT_PLANE)) <= cap
  /\ Cardinality(CallsOf(trace, "factor_rooms", NULL)) <= cap

PlaneCalls(trace) ==
  {i \in DOMAIN trace.calls : trace.calls[i].fn = "factor_planes"}

PoseToPlaneEdges(call) ==
  {i \in DOMAIN call.added :
     /\ ~call.added[i].vertex
     /\ call.added[i].kind \in {"se3_plane", "se3_point_to_plane"}}

OnePoseToPlaneEdge(call) ==
  /\ Cardinality(PoseToPlaneEdges(call)) = 1
  /\ \A i \in PoseToPlaneEdges(call) :
       /\ call.added[i].kind = IF use_point_to_plane THEN "se3_point_to_plane"
                               ELSE "se3_plane"
       /\ call.added[i].v1 = call.keyframe_node
       /\ call.added[i].v2 = call.node
  /\ Cardinality(VerticesAdded(call)) <= 1
  /\ IF call.is_new
     THEN /\ Cardinality(VerticesAdded(call)) = 1
          /\ \A i \in VerticesAdded(call) :
               call.added[i].kind = "plane" /\ call.added[i].v1 = call.node
     ELSE \E j \in DOMAIN call.landmarks : call.landmarks[j].plane_node = call.node

RoomCalls(trace) ==
  {i \in DOMAIN trace.calls : trace.calls[i].fn = "factor_rooms"}

EdgesAdded(call, kind) ==
  {i \in DOMAIN call.added : ~call.added[i].vertex /\ call.added[i].kind = kind}

\* one edge from the keyframe vertex to the structure's vertex, plane_edges
\* edges of each kind of kinds from the structure's vertex to a plane vertex,
\* nothing else but at most one vertex
StructureEdges(call, pose_kind, kinds, plane_edges) ==
  /\ Cardinality(EdgesAdded(call, pose_kind)) = 1
  /\ \A i \in EdgesAdded(call, pose_kind) :
       call.added[i].v1 = call.keyframe_node /\ call.added[i].v2 = call.node
  /\ \A kind \in kinds :
       /\ Cardinality(EdgesAdded(call, kind)) = plane_edges
       /\ \A i \in EdgesAdded(call, kind) :
            call.added[i].v1 = call.node /\ call.added[i].v2 # NULL
  /\ Cardinality(VerticesAdded(call)) <= 1
  /\ Len(call.added) = Cardinality(VerticesAdded(call)) + 1
                         + plane_edges * Cardinality(kinds)

\* C30: every factor_corridors call of a tick adds one pose-to-corridor edge
\* and two corridor-to-plane edges of its class, every factor_rooms call one
\* pose-to-room edge, two room-to-x-plane and two room-to-y-plane edges, and
\* each call adds at most one vertex.
C30_StructureEdgesPerCall ==
  [][/\ \A i \in CorridorCalls(tick') :
          StructureEdges(tick'.calls[i], "se3_corridor",
                         {IF tick'.calls[i].plane_type = X_VERT_PLANE
                          THEN "corridor_xplane" ELSE "corridor_yplane"}, 2)
     /\ \A i \in RoomCalls(tick') :
          StructureEdges(tick'.calls[i], "se3_room", {"room_xplane", "room_yplane"}, 2)]_vars

\* a tick that factored a corridor, and a room into a vertex of its own
C30_Witness ==
  /\ tick.ticked
  /\ CorridorCalls(tick) # {}
  /\ \E i \in RoomCalls(tick) :
       /\ tick.calls[i].is_new
       /\ Cardinality(VerticesAdded(tick.calls[i])) = 1
       /\ Len(tick.calls[i].added) = 6

(***************************************************************************)
(* C31: the decision sort_corridors takes on a pair against the decision   *)
(* it takes on the same two candidates handed over alone.                  *)
(***************************************************************************)
\* the pairs of the result made of the candidates ci and cj, in this order
PairsOf(pairs, ci, cj) ==
  {k \in DOMAIN pairs :
     pairs[k].plane1.plane_id = ci.plane_id /\ pairs[k].plane2.plane_id = cj.plane_id}

SameDecisionAlone(plane_type, cands, pairs, i, j) ==
  LET alone == sort_corridors(plane_type, <<cands[i], cands[j]>>)
  IN /\ (alone = <<>>) <=> (PairsOf(pairs, cands[i], cands[j]) = {})
     /\ \A k \in PairsOf(pairs, cands[i], cands[j]) : pairs[k].width = alone[1].width

\* C31: the width and the opposing-normal decision sort_corridors takes for the
\* candidates at i and j are those it takes for the two candidates alone,
\* whatever else is in the list and wherever the pair stands in it.
C31_PairDecisionIndependent ==
  last.op = "sort_corridors" =>
    \A i, j \in DOMAIN last.in[2] :
      i < j => SameDecisionAlone(last.in[1], last.in[2], last.out, i, j)

(***************************************************************************)
(* C32: the width of a pair of walls centred on the origin.                *)
(***************************************************************************)
\* two planes of opposing normals whose offsets have the same magnitude
CentredOnOrigin(v1, v2) == Dot(v1.n, v2.n) < 0 /\ Abs(v1.d) = Abs(v2.d)

\* C32: for two opposing planes whose offsets have equal magnitude,
\* width_between_planes returns their separation |d1| + |d2|.
C32_WidthOfCentredPair ==
  (/\ last.op \in {"width_between_planes", "PlaneUtils::width_between_planes"}
   /\ CentredOnOrigin(last.in[1], last.in[2]))
    => last.out = Abs(last.in[1].d) + Abs(last.in[2].d)

(***************************************************************************)
(* Lock acquisition (specification SpecLocks).  A handler is the sequence  *)
(* of lock and unlock operations its code performs, every branch that      *)
(* changes the sequence being one program of the handler; a thread takes   *)
(* one operation per step, and a lock operation waits until the mutex is   *)
(* free.  Which branch a call takes is left open, so the programs cover    *)
(* every state of the queues.  pc holds what is left of each thread's      *)
(* program.  A handler of one program is called again as soon as it has    *)
(* returned: a thread between two calls neither holds nor awaits a mutex.  *)
(***************************************************************************)
Acquire(m) == <<"lock", m>>
Release(m) == <<"unlock", m>>

\* a std::lock_guard over a scope, or a lock() / unlock() pair around statements
Scoped(m, inner) == <<Acquire(m)>> \o inner \o <<Release(m)>>

\* flush_keyframe_queue: the guard on keyframe_queue_mutex and, past the test
\* of the empty queue, the pair on trans_odom2map_mutex
flush_keyframe_queue_locks ==
  {Scoped("keyframe_queue_mutex", <<>>),
   Scoped("keyframe_queue_mutex", Scoped("trans_odom2map_mutex", <<>>))}

\* the four other flushes, each under the guard of its queue, in the order the
\* operands of the & are called
RECURSIVE aux_flush_locks(_)
aux_flush_locks(order) ==
  IF order = <<>> THEN <<>>
  ELSE Scoped(QueueMutex[Head(order)], <<>>) \o aux_flush_locks(Tail(order))

\* what follows the test of the tick: nothing on the early return, else the
\* pairs on trans_odom2map_mutex and keyframes_snapshot_mutex
tick_rest_locks ==
  {<<>>, Scoped("trans_odom2map_mutex", <<>>) \o Scoped("keyframes_snapshot_mutex", <<>>)}

optimization_timer_locks ==
  {Scoped("main_thread_mutex", keyframes_part \o aux_flush_locks(order) \o rest) :
     keyframes_part \in flush_keyframe_queue_locks, order \in DrainOrders,
     rest \in tick_rest_locks}

\* a variant in which the callback takes main_thread_mutex inside its guard
callback_locks_nested(producer) ==
  {Scoped(QueueMutex[producer], Scoped("main_thread_mutex", <<>>))}

\* a producer callback: one guard on its queue's mutex on every path
callback_locks(producer) == {Scoped(QueueMutex[producer], <<>>)}

LockPrograms(thread) ==
  IF thread = "opt" THEN optimization_timer_locks
  ELSE IF thread = "dump" THEN {Scoped("main_thread_mutex", <<>>)}
  ELSE IF thread \in Readers THEN {Scoped("keyframes_snapshot_mutex", <<>>)}
  ELSE callback_locks(thread)

\* what a thread is left with after an operation: the rest of its program, or
\* the next call of a handler that has one program
Continue(thread, rest) ==
  IF rest = <<>> /\ Cardinality(LockPrograms(thread)) = 1
  THEN CHOOSE program \in LockPrograms(thread) : TRUE
  ELSE rest

InitLocks ==
  /\ max_keyframes_per_update = Min(1, 2)
  /\ kf = <<>> /\ keyframe_queue = <<>> /\ new_keyframes = <<>> /\ keyframes = <<>>
  /\ keyframe_hash = <<>>
  /\ base_frame_id = FALSE
  /\ gps_queue = <<>> /\ imu_queue = <<>> /\ floor_coeffs_queue = <<>>
  /\ clouds_seg_queue = <<>>
  /\ zero_utm = FALSE
  /\ graph = EmptyGraph
  /\ floor_plane_node = NULL /\ anchor_node = NULL
  /\ x_vert_planes = <<>> /\ y_vert_planes = <<>> /\ hort_planes = <<>>
  /\ x_corridors = <<>> /\ y_corridors = <<>> /\ rooms_vec = <<>>
  /\ trans_odom2map = 0
  /\ keyframes_snapshot = <<>>
  /\ graph_updated = FALSE
  /\ mutex = [m \in Mutexes |-> "free"]
  /\ pc = [t \in Threads |-> Continue(t, <<>>)]
  /\ tick = NoTrace
  /\ snapshot = [t \in Readers |-> <<>>]
  /\ sent = [aux |-> 0, stamp |-> [p \in Producers |-> 0], segs |-> {}]
  /\ last = [thread |-> "none", op |-> <<"onInit", "none">>]

LocksFrame ==
  UNCHANGED <<max_keyframes_per_update, kf, keyframe_queue, new_keyframes, keyframes,
              keyframe_hash, base_frame_id, gps_queue, imu_queue, floor_coeffs_queue,
              clouds_seg_queue, zero_utm, graph, floor_plane_node, anchor_node,
              x_vert_planes, y_vert_planes, hort_planes, x_corridors, y_corridors,
              rooms_vec, trans_odom2map, keyframes_snapshot, graph_updated, tick,
              snapshot, sent>>

\* the timer calls a handler of a thread that is running none
handler_call(thread, program) ==
  /\ pc[thread] = <<>>
  /\ pc' = [pc EXCEPT ![thread] = program]
  /\ last' = [thread |-> thread, op |-> <<"call", "none">>]
  /\ UNCHANGED mutex
  /\ LocksFrame

mutex_lock(thread) ==
  /\ pc[thread] # <<>>
  /\ Head(pc[thread])[1] = "lock"
  /\ MayLock(Head(pc[thread])[2])
  /\ mutex' = [mutex EXCEPT ![Head(pc[thread])[2]] = thread]
  /\ pc' = [pc EXCEPT ![thread] = Continue(thread, Tail(@))]
  /\ last' = [thread |-> thread, op |-> Head(pc[thread])]
  /\ LocksFrame

mutex_unlock(thread) ==
  /\ pc[thread] # <<>>
  /\ Head(pc[thread])[1] = "unlock"
  /\ mutex' = [mutex EXCEPT ![Head(pc[thread])[2]] = "free"]
  /\ pc' = [pc EXCEPT ![thread] = Continue(thread, Tail(@))]
  /\ last' = [thread |-> thread, op |-> Head(pc[thread])]
  /\ LocksFrame

NextLocks ==
  \/ \E thread \in Threads :
       \E program \in LockPrograms(thread) : handler_call(thread, program)
  \/ \E thread \in Threads : mutex_lock(thread)
  \/ \E thread \in Threads : mutex_unlock(thread)

SpecLocks == InitLocks /\ [][NextLocks]_vars

\* the thread is at a lock operation on a mutex that is held
Waiting(thread) ==
  /\ pc[thread] # <<>>
  /\ Head(pc[thread])[1] = "lock"
  /\ mutex[Head(pc[thread])[2]] # "free"

\* the thread holding the mutex a waiting thread is at
Holder(thread) == mutex[Head(pc[thread])[2]]

\* steps of waiting threads can be followed from the thread, each waiting for
\* the next: with more steps than there are threads, the chain closes on
\* itself and none of its threads ever runs again
RECURSIVE WaitsAlong(_, _)
WaitsAlong(thread, steps) ==
  IF ~Waiting(thread) THEN FALSE
  ELSE IF steps = 0 THEN TRUE
  ELSE WaitsAlong(Holder(thread), steps - 1)

\* the mutexes are held by the threads whose programs have taken them
HeldAsProgrammed ==
  \A m \in Mutexes :
    mutex[m] # "free" =>
      \E i \in DOMAIN pc[mutex[m]] : pc[mutex[m]][i] = Release(m)

\* C33: in every reachable state of the handlers' lock operations no set of
\* threads wait on each other: every chain of threads waiting for a mutex
\* ends at a thread that is not waiting, which holds every mutex of its own
\* release operations.
C33_NoWaitCycle ==
  /\ \A thread \in Threads : ~WaitsAlong(thread, Cardinality(Threads))
  /\ HeldAsProgrammed

\* the tick holds main_thread_mutex and keyframe_queue_mutex, cloud_callback
\* and dump_service wait for it, and save_map_service waits for the map timer
C33_Witness ==
  /\ mutex["main_thread_mutex"] = "opt" /\ mutex["keyframe_queue_mutex"] = "opt"
  /\ Waiting("cloud") /\ Waiting("dump")
  /\ Holder("cloud") = "opt" /\ Holder("dump") = "opt"
  /\ mutex["keyframes_snapshot_mutex"] = "pub" /\ Waiting("save")

(***************************************************************************)
(* C34: the way of a keyframe from the queue to the committed sequence,    *)
(* under a timer that keeps firing (specification SpecFair).               *)
(***************************************************************************)
\* the ROS timer calls optimization_timer_callback again and again
TimerFires ==
  \E order \in DrainOrders, loop \in LoopOutcomes(This), solved \in SolverOutcomes(This) :
    optimization_timer_callback(order, loop, solved)

\* the handlers that touch the keyframes, the graph's pose vertices or
\* main_thread_mutex, with the floor and GPS producers for ticks of other work
NextFair ==
  \/ \E msg \in CloudMessages : cloud_callback(msg.stamp, msg.update)
  \/ \E msg \in FloorMessages : floor_coeffs_callback(msg.stamp, msg.empty)
  \/ \E stamp \in PoseStamps : navsat_callback(stamp)
  \/ TimerFires
  \/ dump_service

\* a step of the timer: the only steps that leave a trace of a tick
TimerStep == tick'.ticked

\* what WF_vars(TimerFires) gives while keyframes are queued: the timer's step
\* changes the state whenever keyframe_queue is not empty, so a timer that
\* keeps being called either finds the queue empty again and again or takes
\* steps again and again
TimerFair == []<>(keyframe_queue = <<>>) \/ []<><<TimerStep>>_vars

SpecFair == Init /\ [][NextFair]_vars /\ TimerFair

Queued(k) == k \in Range(keyframe_queue)

\* the keyframe is in the committed sequence and its node is a pose vertex
Committed(k) ==
  /\ k \in Range(keyframes)
  /\ kf[k].node # NULL
  /\ kf[k].node < num_vertices(graph)
  /\ graph.vertices[kf[k].node + 1] = "se3"

\* C34: with max_keyframes_per_update >= 1 and a timer that keeps firing,
\* every keyframe pushed into keyframe_queue is eventually in the committed
\* sequence, with a pose vertex in the graph.
C34_QueuedEventuallyCommitted ==
  \A k \in 1..MaxKeyframes : (k \in DOMAIN kf /\ Queued(k)) ~> (k \in DOMAIN kf /\ Committed(k))

\* two keyframes have been committed by ticks that take one at a time
C34_Witness ==
  /\ max_keyframes_per_update = 1
  /\ keyframe_queue = <<>>
  /\ Len(keyframes) = 2
  /\ \A k \in DOMAIN kf : Committed(k)

(***************************************************************************)
(* C35: the staging list between two ticks.                                *)
(***************************************************************************)
\* the first-keyframe test of flush_keyframe_queue, as iteration i of a flush
\* started in this state would find it, the keyframe just staged
FirstKeyframeTest(i) ==
  LET staged == flush_keyframe_loop(This, 0, i)
  IN staged.keyframes = <<>> /\ Len(staged.new_keyframes) + 1 = 1

\* C35: new_keyframes is empty whenever main_thread_mutex is free, so a flush
\* starts with an empty staging list and its first-keyframe test holds only
\* at its first iteration when nothing is committed yet: for the first
\* keyframe ever drained.
C35_StagingEmptyBetweenTicks ==
  mutex["main_thread_mutex"] = "free" =>
    /\ new_keyframes = <<>>
    /\ \A i \in 0..(KeyframeBatch(This) - 1) :
         FirstKeyframeTest(i) => (i = 0 /\ keyframe_queue[i + 1] = 1 /\ keyframes = <<>>)

\* a tick has staged two keyframes and committed them
C35_Witness ==
  /\ tick.ticked /\ tick.keyframe_updated
  /\ max_keyframes_per_update = 2
  /\ Len(keyframes) = 2
  /\ new_keyframes = <<>>
  /\ mutex["main_thread_mutex"] = "free"

(***************************************************************************)
(* C36: keyframes.back() at the publish step, for every value the          *)
(* parameter max_keyframes_per_update can be given (specification          *)
(* SpecBatch).                                                             *)
(***************************************************************************)
\* private_nh.param<int> takes any integer; 0 stands for those below 1
AnyBatchSizes == {0} \cup BatchSizes

InitBatch ==
  /\ max_keyframes_per_update \in AnyBatchSizes
  /\ InitNodelet
  /\ sent = NothingSent(Producers)

\* the whole callback, the process dying where keyframes.back() made it die
optimization_timer_callback_any(order, loop, solved, back) ==
  LET commit(r) ==
        /\ Store(r.n)
        /\ tick' = r.trace
        /\ pc' = IF r.crashed THEN [pc EXCEPT !["opt"] = "crashed"] ELSE pc
  IN /\ commit(optimization_timer_back(This, order, loop, solved[1], solved[2], back))
     /\ UNCHANGED <<max_keyframes_per_update, mutex, snapshot, last, sent>>

TimerFiresAny ==
  \E order \in DrainOrders, loop \in LoopOutcomes(This), solved \in SolverOutcomes(This),
     back \in BackOutcomes :
    optimization_timer_callback_any(order, loop, solved, back)

\* a process that died takes no more steps
Alive == pc["opt"] # "crashed"

\* the handlers of NextFair, while the process lives
NextBatch ==
  \/ Alive /\ \E msg \in CloudMessages : cloud_callback(msg.stamp, msg.update)
  \/ Alive /\ \E msg \in FloorMessages : floor_coeffs_callback(msg.stamp, msg.empty)
  \/ Alive /\ \E stamp \in PoseStamps : navsat_callback(stamp)
  \/ Alive /\ TimerFiresAny
  \/ Alive /\ dump_service

SpecBatch == InitBatch /\ [][NextBatch]_vars

\* C36: a tick that gets past the no-op check and reaches the publish step
\* has a non-empty committed keyframe sequence, so keyframes.back() is defined.
C36_KeyframesAtPublish ==
  (tick.ticked /\ tick.optimize) => keyframes # <<>>

(***************************************************************************)
(* C37: the supports of a plane landmark of PlaneMapper (specification     *)
(* SpecMapper).                                                            *)
(***************************************************************************)
PlaneClasses == <<x_vert_planes, y_vert_planes, hort_planes>>

\* the lists convert_plane_points_to_map walks together, and the cloud the
\* neighbour test reads
WellSupported(plane) ==
  /\ Len(plane.cloud_seg_body_vec) = Len(plane.keyframe_node_vec)
  /\ Len(plane.keyframe_node_vec) >= 1
  /\ plane.cloud_seg_map # NullCloud

\* C37: in every reachable state each plane landmark's list of supporting
\* body clouds and its list of supporting pose vertices have the same length,
\* at least 1, and every landmark has a map cloud that is not null (landmarks
\* exist only after a factor_planes call).
C37_LandmarkSupports ==
  \A c \in DOMAIN PlaneClasses : \A i \in DOMAIN PlaneClasses[c] :
    WellSupported(PlaneClasses[c][i])

\* a landmark has been matched again, so it has two supports, and another
\* class holds a landmark made by a later pass
C37_Witness ==
  /\ last.op = "map_extracted_planes"
  /\ \E i \in DOMAIN x_vert_planes :
       /\ Len(x_vert_planes[i].keyframe_node_vec) = 2
       /\ Len(x_vert_planes[i].cloud_seg_map) = 2
  /\ hort_planes # <<>>

(***************************************************************************)
(* C38: the plane ids a corridor or a room keeps (specification Spec).     *)
(***************************************************************************)
IdsOf(planes) == {planes[i].id : i \in DOMAIN planes}

\* std::find_if over the collection does not return the end iterator
Found(planes, plane_id) == find_plane_node(planes, plane_id) # NULL

CorridorPlanesPresent(corridors, planes) ==
  \A i \in DOMAIN corridors :
    /\ corridors[i].plane1_id \in IdsOf(planes) /\ Found(planes, corridors[i].plane1_id)
    /\ corridors[i].plane2_id \in IdsOf(planes) /\ Found(planes, corridors[i].plane2_id)

\* C38: every plane id stored in a corridor or in a room is the id of a plane
\* landmark of the matching class, so a find_if for it does not return the end
\* iterator.
C38_StoredPlaneIdsPresent ==
  /\ CorridorPlanesPresent(x_corridors, x_vert_planes)
  /\ CorridorPlanesPresent(y_corridors, y_vert_planes)
  /\ \A i \in DOMAIN rooms_vec :
       /\ {rooms_vec[i].plane_x1_id, rooms_vec[i].plane_x2_id} \subseteq IdsOf(x_vert_planes)
       /\ {rooms_vec[i].plane_y1_id, rooms_vec[i].plane_y2_id} \subseteq IdsOf(y_vert_planes)
       /\ Found(x_vert_planes, rooms_vec[i].plane_x1_id)
       /\ Found(x_vert_planes, rooms_vec[i].plane_x2_id)
       /\ Found(y_vert_planes, rooms_vec[i].plane_y1_id)
       /\ Found(y_vert_planes, rooms_vec[i].plane_y2_id)

\* a corridor and a room are kept, over planes of both classes
C38_Witness ==
  /\ x_corridors # <<>> \/ y_corridors # <<>>
  /\ rooms_vec # <<>>
  /\ Len(x_vert_planes) >= 2 /\ Len(y_vert_planes) >= 2

(***************************************************************************)
(* C39: gps_queue under three subscriptions, each delivering in the order  *)
(* of its own stamps (specification SpecGps).                              *)
(***************************************************************************)
\* /gps/geopoint, /gpsimu_driver/nmea_sentence and /gps/navsat
GpsSources == {"gps", "nmea", "navsat"}

InitGps ==
  /\ max_keyframes_per_update \in BatchSizes
  /\ InitNodelet
  /\ sent = NothingSent(Producers \cup GpsSources)

\* gps_callback entered for a message of source, which delivers in stamp order
gps_callback_from(source, gps_msg) ==
  /\ sent.aux < MaxAux
  /\ sent.stamp[source] <= gps_msg.stamp
  /\ Store([This EXCEPT !.gps_queue = Append(@, gps_msg)])
  /\ sent' = [sent EXCEPT !.aux = @ + 1, !.stamp[source] = gps_msg.stamp]
  /\ tick' = NoTrace
  /\ Sequential

\* a sentence whose status is not 'A' is dropped, and is still the last one
\* its source delivered
nmea_callback_from(stamp, status_A) ==
  IF status_A
  THEN gps_callback_from("nmea", [stamp |-> stamp, alt_nan |-> TRUE])
  ELSE /\ sent.stamp["nmea"] <= stamp
       /\ Store(This)
       /\ sent' = [sent EXCEPT !.stamp["nmea"] = stamp]
       /\ tick' = NoTrace
       /\ Sequential

navsat_callback_from(stamp) ==
  gps_callback_from("navsat", [stamp |-> stamp, alt_nan |-> FALSE])

NextGps ==
  \/ \E msg \in CloudMessages : cloud_callback(msg.stamp, msg.update)
  \/ \E stamp \in PoseStamps : gps_callback_from("gps", [stamp |-> stamp, alt_nan |-> FALSE])
  \/ \E msg \in NmeaSentences : nmea_callback_from(msg.stamp, msg.status_A)
  \/ \E stamp \in PoseStamps : navsat_callback_from(stamp)
  \/ TimerFires

SpecGps == InitGps /\ [][NextGps]_vars

\* C39: gps_queue is in non-decreasing timestamp order in every reachable
\* state, whatever the interleaving of gps_callback, nmea_callback and
\* navsat_callback, each source delivering its own messages in stamp order.
C39_GpsQueueSorted == IsSorted(gps_queue)

(***************************************************************************)
(* C40: the GPS and IMU priors of a keyframe (specification Spec).         *)
(***************************************************************************)
GpsPriors == {"se3_prior_xy", "se3_prior_xyz"}
ImuPriors == {"se3_prior_quat", "se3_prior_vec"}

\* the prior edges of these kinds the graph holds on a pose vertex
PriorsOn(g, kinds, node) == {e \in g.edges : e.kind \in kinds /\ e.v1 = node}

\* the additions of these kinds to a pose vertex among those a handler made,
\* each counted, whatever it measures
PriorsAdded(added, kinds, node) ==
  {i \in DOMAIN added : ~added[i].vertex /\ added[i].kind \in kinds /\ added[i].v1 = node}

\* the state the drains of a tick begun now leave, before loop detection
Drained(order) ==
  LET drained(k) == aux_drains(k.n, k.ret, order).n
  IN drained(flush_keyframe_queue(This))

\* at most one GPS prior and one IMU prior of each enabled kind, and none
\* where utm_coord or acceleration is not set
PriorsOnce(k) ==
  /\ Cardinality(PriorsOn(graph, GpsPriors, kf[k].node)) <= (IF kf[k].utm_coord THEN 1 ELSE 0)
  /\ \A kind \in ImuPriors :
       Cardinality(PriorsOn(graph, {kind}, kf[k].node)) <= (IF kf[k].acceleration THEN 1 ELSE 0)

\* what a tick begun now adds: nothing where utm_coord or acceleration is set,
\* at most one GPS prior and one IMU prior of each kind elsewhere
NoPriorAgain(n, k) ==
  /\ Cardinality(PriorsAdded(n.graph.added, GpsPriors, n.kf[k].node))
       <= (IF kf[k].utm_coord THEN 0 ELSE 1)
  /\ \A kind \in ImuPriors :
       Cardinality(PriorsAdded(n.graph.added, {kind}, n.kf[k].node))
         <= (IF kf[k].acceleration THEN 0 ELSE 1)

\* C40: over any sequence of ticks each keyframe receives at most one GPS
\* prior and at most one set of IMU priors: a keyframe whose utm_coord (or
\* acceleration) is set has one, and no later flush_gps_queue (or
\* flush_imu_queue) adds another edge to its pose vertex.
C40_PriorsAtMostOnce ==
  \A k \in DOMAIN kf :
    kf[k].node # NULL =>
      /\ PriorsOnce(k)
      /\ \A order \in DrainOrders : NoPriorAgain(Drained(order), k)

\* a keyframe has its IMU prior and the message it came from is still queued,
\* the tick having given up on the transform of a later message
C40_Witness ==
  /\ tick.ticked /\ "imu" \in tick.ran
  /\ \E k \in Range(keyframes) :
       /\ kf[k].acceleration
       /\ Cardinality(PriorsOn(graph, ImuPriors, kf[k].node)) = 1
       /\ \E i \in DOMAIN imu_queue : imu_queue[i].stamp = kf[k].stamp

====
